---- MODULE Spec2Model ----
(***************************************************************************)
(* HealthNews daily posting pipeline: safety filter, product matcher,      *)
(* repeat guard, day check and per-brand scan of run_daily, over the       *)
(* SQLite history store (logs, article_history, post_log).                 *)
(*                                                                         *)
(* Spec follows the day check over successive runs, SpecScan the entry     *)
(* scan over successive runs, SpecSafety and SpecMatcher apply             *)
(* safety_filter and select_best_product on their own.                     *)
(*                                                                         *)
(* Text is a sequence of one-character strings.  Scores of the relevance   *)
(* classifier are in hundredths, lexical scores in thousandths.            *)
(***************************************************************************)
EXTENDS Integers, Sequences, FiniteSets, TLC

VARIABLES
    SETTINGS,         \* utils/config.py Settings, read from the environment at process start
    clock,            \* wall clock, in ticks
    pc,               \* position of run_daily: "idle", "brand", "scan", "crashed"
    runs,             \* number of run_daily invocations started
    brands,           \* brand list of the current run
    bi,               \* index of the brand being processed
    products,         \* catalog of the current brand
    entries,          \* ingested entries of the current brand
    ei,               \* index of the next entry of the scan
    now_local,        \* now_local of the current brand
    scheduled_time,   \* target time passed to _schedule_for_brand
    last_products,    \* repeat window of the current brand
    logs,             \* table logs
    article_history,  \* table article_history
    post_log,         \* table post_log
    requests,         \* create_post requests issued so far
    repeat_skips,     \* evaluations that ended at the repeat guard: <<run, brand, title, url>>
    rotation_state,   \* data/image_rotation.json: image folder -> index of the last image used
    last              \* what the last step did (observation only)

vars == <<SETTINGS, clock, pc, runs, brands, bi, products, entries, ei, now_local,
          scheduled_time, last_products, logs, article_history, post_log, requests,
          repeat_skips, rotation_state, last>>

-----------------------------------------------------------------------------
(* Bounds *)

MaxRuns == 3        \* run_daily invocations of a behaviour of Spec
MaxClock == 4       \* last tick of the wall clock
TicksPerDay == 3    \* ticks of one local day
ScanRuns == 3       \* run_daily invocations of a behaviour of SpecScan
MaxEntries == 2     \* entries returned by one ingest_rss call in SpecScan

-----------------------------------------------------------------------------
(* Python str operations on sequences of characters *)

LowerMap ==
    ("A" :> "a") @@ ("B" :> "b") @@ ("C" :> "c") @@ ("D" :> "d") @@ ("E" :> "e") @@
    ("F" :> "f") @@ ("G" :> "g") @@ ("H" :> "h") @@ ("I" :> "i") @@ ("J" :> "j") @@
    ("K" :> "k") @@ ("L" :> "l") @@ ("M" :> "m") @@ ("N" :> "n") @@ ("O" :> "o") @@
    ("P" :> "p") @@ ("Q" :> "q") @@ ("R" :> "r") @@ ("S" :> "s") @@ ("T" :> "t") @@
    ("U" :> "u") @@ ("V" :> "v") @@ ("W" :> "w") @@ ("X" :> "x") @@ ("Y" :> "y") @@
    ("Z" :> "z")

LowerLetters ==
    {"a","b","c","d","e","f","g","h","i","j","k","l","m","n","o","p","q","r","s","t",
     "u","v","w","x","y","z"}

DigitVal ==
    ("0" :> 0) @@ ("1" :> 1) @@ ("2" :> 2) @@ ("3" :> 3) @@ ("4" :> 4) @@
    ("5" :> 5) @@ ("6" :> 6) @@ ("7" :> 7) @@ ("8" :> 8) @@ ("9" :> 9)

IsLetter(c) == c \in LowerLetters \/ c \in DOMAIN LowerMap

IsDigit(c) == c \in DOMAIN DigitVal

IsSpace(c) == c = " "

\* str.lower()
Lower(s) == [i \in 1..Len(s) |-> IF s[i] \in DOMAIN LowerMap THEN LowerMap[s[i]] ELSE s[i]]

\* pat in s
Contains(pat, s) ==
    \E i \in 1..(Len(s) - Len(pat) + 1) : SubSeq(s, i, i + Len(pat) - 1) = pat

\* s.startswith(pat)
StartsWith(s, pat) == Len(pat) <= Len(s) /\ SubSeq(s, 1, Len(pat)) = pat

\* position of the first occurrence of pat in s at or after position from; 0 if none
Find(pat, s, from) ==
    LET hits == {i \in from..(Len(s) - Len(pat) + 1) : SubSeq(s, i, i + Len(pat) - 1) = pat}
    IN  IF hits = {} THEN 0 ELSE CHOOSE i \in hits : \A j \in hits : i <= j

\* s.split(pat)[0]
SplitFirst(s, pat) ==
    LET p == Find(pat, s, 1) IN IF p = 0 THEN s ELSE SubSeq(s, 1, p - 1)

\* s.split(pat)[1], for s that contains pat
SplitSecond(s, pat) ==
    LET p == Find(pat, s, 1)
        rest == SubSeq(s, p + Len(pat), Len(s))
    IN  SplitFirst(rest, pat)

\* s.strip()
Strip(s) ==
    LET keep == {i \in 1..Len(s) : ~IsSpace(s[i])}
    IN  IF keep = {} THEN <<>>
        ELSE SubSeq(s, CHOOSE i \in keep : \A j \in keep : i <= j,
                       CHOOSE i \in keep : \A j \in keep : i >= j)

\* s.split(): the whitespace-separated words of s, as a sequence
RECURSIVE Words(_)
Words(s) ==
    LET t == Strip(s)
        sp == {i \in 1..Len(t) : IsSpace(t[i])}
        cut == IF sp = {} THEN Len(t) + 1 ELSE CHOOSE i \in sp : \A j \in sp : i <= j
    IN  IF t = <<>> THEN <<>>
        ELSE <<SubSeq(t, 1, cut - 1)>> \o Words(SubSeq(t, cut, Len(t)))

\* value of a sequence of digits
RECURSIVE DigitsValue(_)
DigitsValue(s) ==
    IF s = <<>> THEN 0 ELSE 10 * DigitsValue(SubSeq(s, 1, Len(s) - 1)) + DigitVal[s[Len(s)]]

AllDigits(s) == \A i \in 1..Len(s) : IsDigit(s[i])

\* int(s): ok is FALSE where Python raises ValueError.  Signs, underscores and
\* surrounding whitespace are not among the inputs of the model.
ParseInt(s) ==
    IF s # <<>> /\ AllDigits(s) THEN [ok |-> TRUE, val |-> DigitsValue(s)]
    ELSE [ok |-> FALSE, val |-> 0]

\* float(s), in hundredths: ok is FALSE where Python raises ValueError.  The
\* inputs of the model are decimal numerals with at most two decimals, or text
\* that is no numeral at all.
ParseFloat(s) ==
    LET dot == Find(<<".">>, s, 1)
        ip == IF dot = 0 THEN s ELSE SubSeq(s, 1, dot - 1)
        fp == IF dot = 0 THEN <<>> ELSE SubSeq(s, dot + 1, Len(s))
        fp2 == SubSeq(fp \o <<"0", "0">>, 1, 2)
    IN  IF AllDigits(ip) /\ AllDigits(fp) /\ Len(ip) + Len(fp) > 0
        THEN [ok |-> TRUE, val |-> 100 * DigitsValue(ip) + DigitsValue(fp2)]
        ELSE [ok |-> FALSE, val |-> 0]

-----------------------------------------------------------------------------
(* pipeline/safety_filter.py *)

\* A reply of an external model is a record: raised is TRUE when the call raises
\* (outage), otherwise content is response.choices[0].message.content.

hard_block_check_nolower(text) ==
    LET hits == {k \in 1..Len(SETTINGS.hard_block_topics) :
                    Contains(SETTINGS.hard_block_topics[k], text)}
    IN  IF hits # {}
        THEN [ok |-> FALSE,
              reason |-> <<"Hard-blocked topic detected: ">>
                         \o SETTINGS.hard_block_topics[CHOOSE k \in hits : \A j \in hits : k <= j]]
        ELSE [ok |-> TRUE, reason |-> <<>>]

hard_block_check(text) ==
    LET lowered == Lower(text)
        hits == {k \in 1..Len(SETTINGS.hard_block_topics) :
                    Contains(SETTINGS.hard_block_topics[k], lowered)}
    IN  IF hits # {}
        THEN [ok |-> FALSE,
              reason |-> <<"Hard-blocked topic detected: ">>
                         \o SETTINGS.hard_block_topics[CHOOSE k \in hits : \A j \in hits : k <= j]]
        ELSE [ok |-> TRUE, reason |-> <<>>]

ai_hardblock_check(text, resp) ==
    IF SETTINGS.novita_api_key = ""
    THEN [ok |-> FALSE, reason |-> <<"Missing NOVITA_API_KEY for AI hard-block check">>,
          raised |-> FALSE, called |-> FALSE]
    ELSE IF resp.raised
    THEN [ok |-> FALSE, reason |-> <<>>, raised |-> TRUE, called |-> TRUE]
    ELSE LET content == Strip(resp.content)
         IN  IF StartsWith(Lower(content), <<"h","a","r","d","b","l","o","c","k","=","y","e","s">>)
             THEN [ok |-> FALSE, reason |-> content, raised |-> FALSE, called |-> TRUE]
             ELSE [ok |-> TRUE, reason |-> <<>>, raised |-> FALSE, called |-> TRUE]

ai_product_relevance_check_related_only(text, prods, resp) ==
    IF SETTINGS.novita_api_key = ""
    THEN [ok |-> FALSE, reason |-> <<"Missing NOVITA_API_KEY for AI relevance check">>,
          score |-> 0, raised |-> FALSE, called |-> FALSE]
    ELSE IF resp.raised
    THEN [ok |-> FALSE, reason |-> <<>>, score |-> 0, raised |-> TRUE, called |-> TRUE]
    ELSE IF StartsWith(Lower(Strip(resp.content)),
                       <<"r","e","l","a","t","e","d","=","y","e","s">>)
    THEN [ok |-> TRUE, reason |-> <<>>, score |-> 0, raised |-> FALSE, called |-> TRUE]
    ELSE [ok |-> FALSE, reason |-> Strip(resp.content), score |-> 0,
          raised |-> FALSE, called |-> TRUE]

ai_product_relevance_check(text, prods, resp) ==

    IF SETTINGS.novita_api_key = ""
    THEN [ok |-> FALSE, reason |-> <<"Missing NOVITA_API_KEY for AI relevance check">>,
          score |-> 0, raised |-> FALSE, called |-> FALSE]
    ELSE IF resp.raised
    THEN [ok |-> FALSE, reason |-> <<>>, score |-> 0, raised |-> TRUE, called |-> TRUE]
    ELSE LET content == Strip(resp.content)
             lowered == Lower(content)
             key == <<"s","c","o","r","e","=">>
             score_str == Strip(SplitFirst(SplitSecond(lowered, key), <<";">>))
             parsed == ParseFloat(score_str)
             score == IF Contains(key, lowered) /\ parsed.ok THEN parsed.val ELSE 0
         IN  IF StartsWith(lowered, <<"r","e","l","a","t","e","d","=","y","e","s">>)
                /\ score >= SETTINGS.relevance_threshold
             THEN [ok |-> TRUE, reason |-> <<>>, score |-> score,
                   raised |-> FALSE, called |-> TRUE]
             ELSE [ok |-> FALSE, reason |-> content, score |-> score,
                   raised |-> FALSE, called |-> TRUE]

\* combined text of an entry
Combined(entry) == entry.title \o <<" ">> \o entry.summary

\* calls: the classifier calls made, in order
safety_filter(entry, prods, hbResp, relResp) ==
    LET combined == Combined(entry)
        g1 == hard_block_check(combined)
        g2 == ai_hardblock_check(combined, hbResp)
        g3 == ai_product_relevance_check(combined, prods, relResp)
        c2 == IF g2.called THEN <<"ai_hardblock_check">> ELSE <<>>
        c3 == IF g3.called THEN <<"ai_product_relevance_check">> ELSE <<>>
    IN  IF ~g1.ok THEN [ok |-> FALSE, reason |-> g1.reason, raised |-> FALSE, calls |-> <<>>]
        ELSE IF g2.raised THEN [ok |-> FALSE, reason |-> <<>>, raised |-> TRUE, calls |-> c2]
        ELSE IF ~g2.ok THEN [ok |-> FALSE, reason |-> g2.reason, raised |-> FALSE, calls |-> c2]
        ELSE IF g3.raised
        THEN [ok |-> FALSE, reason |-> <<>>, raised |-> TRUE, calls |-> c2 \o c3]
        ELSE IF ~g3.ok
        THEN [ok |-> FALSE, reason |-> g3.reason, raised |-> FALSE, calls |-> c2 \o c3]
        ELSE [ok |-> TRUE, reason |-> <<>>, raised |-> FALSE, calls |-> c2 \o c3]

-----------------------------------------------------------------------------
(* pipeline/matcher.py *)

NOISE_TOKENS ==
    { <<"h","e","a","l","t","h">>,
      <<"h","e","a","l","t","h","y">>,
      <<"w","e","l","l","n","e","s","s">>,
      <<"w","e","l","l","b","e","i","n","g">>,
      <<"s","t","u","d","y">>,
      <<"s","t","u","d","i","e","s">>,
      <<"r","e","s","e","a","r","c","h">>,
      <<"r","e","s","e","a","r","c","h","e","r","s">>,
      <<"s","u","g","g","e","s","t">>,
      <<"s","u","g","g","e","s","t","s">>,
      <<"s","h","o","w">>,
      <<"s","h","o","w","s">>,
      <<"m","a","y">>,
      <<"m","i","g","h","t">>,
      <<"c","o","u","l","d">>,
      <<"h","e","l","p">>,
      <<"s","u","p","p","o","r","t">>,
      <<"b","e","n","e","f","i","t">>,
      <<"i","m","p","o","r","t","a","n","t">>,
      <<"s","y","s","t","e","m">>,
      <<"b","o","d","y">>,
      <<"f","u","n","c","t","i","o","n">>,
      <<"f","u","n","c","t","i","o","n","s">>,
      <<"n","a","t","u","r","a","l">>,
      <<"d","a","i","l","y">>,
      <<"o","v","e","r","a","l","l">>,
      <<"i","n","c","l","u","d","i","n","g">>,
      <<"b","a","s","e","d">>,
      <<"u","s","e","d">>,
      <<"u","s","i","n","g">> }

\* the maximal runs of letters of s from position i on that are at least three
\* letters long; cur is the run that ends at position i - 1
RECURSIVE LetterRuns(_, _, _)
LetterRuns(s, i, cur) ==
    LET done == IF Len(cur) >= 3 THEN {cur} ELSE {}
    IN  IF i > Len(s) THEN done
        ELSE IF IsLetter(s[i]) THEN LetterRuns(s, i + 1, Append(cur, s[i]))
        ELSE done \cup LetterRuns(s, i + 1, <<>>)

\* re.findall(r"[a-zA-Z]{3,}", text.lower()) without the noise tokens, as a set
_tokenize(text) == LetterRuns(Lower(text), 1, <<>>) \ NOISE_TOKENS

\* weights in tenths
FIELD_WEIGHTS ==
    [product_name |-> 30, category |-> 20, main_benefit |-> 25, ingredients |-> 20,
     description |-> 10]

Max(S) == CHOOSE x \in S : \A y \in S : x >= y

\* FIELD_WEIGHTS.items(), in order
FieldOrder == <<"product_name", "category", "main_benefit", "ingredients", "description">>

WeighField_sum(weights, toks, w) ==
    [t \in DOMAIN weights \cup toks |->
        IF t \in toks
        THEN (IF t \in DOMAIN weights THEN weights[t] ELSE 0) + w
        ELSE weights[t]]

\* weights after the loop body ran for the tokens toks of a field of weight w
WeighField(weights, toks, w) ==

    [t \in DOMAIN weights \cup toks |->
        IF t \in toks
        THEN Max({IF t \in DOMAIN weights THEN weights[t] ELSE 0, w})
        ELSE weights[t]]

RECURSIVE WeighFields(_, _)
WeighFields(product, k) ==
    IF k = 0 THEN <<>>
    ELSE WeighField(WeighFields(product, k - 1), _tokenize(product[FieldOrder[k]]),
                    FIELD_WEIGHTS[FieldOrder[k]])

_weighted_product_tokens(product) == WeighFields(product, Len(FieldOrder))

RECURSIVE SumOver(_, _)
SumOver(f, S) ==
    IF S = {} THEN 0 ELSE LET x == CHOOSE y \in S : TRUE IN f[x] + SumOver(f, S \ {x})

\* round(1000 * n ** 0.7)
Pow07 ==
    (1 :> 1000) @@ (2 :> 1625) @@ (3 :> 2158) @@ (4 :> 2639) @@ (5 :> 3085) @@
    (6 :> 3505) @@ (7 :> 3905) @@ (8 :> 4287)

\* score in thousandths
ScoreOf(entry_tokens, product_weights) ==
    IF entry_tokens = {} THEN 0
    ELSE IF DOMAIN product_weights = {} THEN 0
    ELSE (SumOver(product_weights, entry_tokens \cap DOMAIN product_weights) * 100000)
            \div Pow07[Cardinality(entry_tokens)]

score_product(entry, product) ==
    ScoreOf(_tokenize(Combined(entry)), _weighted_product_tokens(product))

\* x placed after the items of the sorted sequence whose score is not below its own
InsertDesc(front, x) ==
    LET n == Cardinality({i \in 1..Len(front) : front[i].score >= x.score})
    IN  SubSeq(front, 1, n) \o <<x>> \o SubSeq(front, n + 1, Len(front))

\* sorted(..., key=score, reverse=True): stable, equal scores keep their order
RECURSIVE SortedDesc(_)
SortedDesc(scored) ==
    IF scored = <<>> THEN <<>>
    ELSE InsertDesc(SortedDesc(SubSeq(scored, 1, Len(scored) - 1)), scored[Len(scored)])

RECURSIVE Scored(_, _, _)
Scored(entry, prods, n) ==
    IF n = 0 THEN <<>>
    ELSE Append(Scored(entry, prods, n - 1),
                [product |-> prods[n], score |-> score_product(entry, prods[n])])

_rank_by_keywords(entry, prods) == SortedDesc(Scored(entry, prods, Len(prods)))

\* the empty dict {}
EmptyDict == [is_empty_dict |-> TRUE]

\* truth value of a product dict
Truthy(product) == ~product.is_empty_dict

_ai_rerank(entry, candidates, resp) ==
    LET none == [product |-> EmptyDict, score |-> 0, raised |-> FALSE, called |-> TRUE]
        content == Lower(Strip(resp.content))
        key == <<"c","h","o","i","c","e","=">>
        words == Words(SplitSecond(content, key))
        index == ParseInt(Strip(words[1]))
    IN  IF SETTINGS.novita_api_key = "" THEN [none EXCEPT !.called = FALSE]
        ELSE IF resp.raised THEN [none EXCEPT !.raised = TRUE]
        ELSE IF Contains(<<"c","h","o","i","c","e","=","n","o","n","e">>, content) THEN none
        ELSE IF Contains(key, content)
        THEN IF words = <<>> THEN [none EXCEPT !.raised = TRUE]   \* IndexError
             ELSE IF ~index.ok THEN none                           \* ValueError
             ELSE IF 1 <= index.val /\ index.val <= Len(candidates)
             THEN [product |-> candidates[index.val].product,
                   score |-> candidates[index.val].score, raised |-> FALSE, called |-> TRUE]
             ELSE none
        ELSE none

\* s[:n]
Prefix(s, n) == IF Len(s) <= n THEN s ELSE SubSeq(s, 1, n)

select_best_product(entry, prods, min_score, resp) ==
    LET ranked == _rank_by_keywords(entry, prods)
        positive(item) == item.score > 0
        top_ranked == Prefix(SelectSeq(ranked, positive), SETTINGS.ai_rerank_top_n)
        r == _ai_rerank(entry, top_ranked, resp)
        rc == IF r.called THEN <<"_ai_rerank">> ELSE <<>>
    IN  IF ranked = <<>>
        THEN [product |-> EmptyDict, score |-> 0, raised |-> FALSE, calls |-> <<>>]
        ELSE IF SETTINGS.use_ai_rerank /\ top_ranked # <<>>
        THEN IF r.raised
             THEN [product |-> EmptyDict, score |-> 0, raised |-> TRUE, calls |-> rc]
             ELSE IF Truthy(r.product) /\ r.score >= min_score
             THEN [product |-> r.product, score |-> r.score, raised |-> FALSE, calls |-> rc]
             ELSE [product |-> EmptyDict, score |-> r.score, raised |-> FALSE, calls |-> rc]
        ELSE IF ranked[1].score < min_score
        THEN [product |-> EmptyDict, score |-> ranked[1].score, raised |-> FALSE,
              calls |-> <<>>]
        ELSE [product |-> ranked[1].product, score |-> ranked[1].score, raised |-> FALSE,
              calls |-> <<>>]

-----------------------------------------------------------------------------
(* Local time.  A datetime is a tick count; isoformat() renders it as
   <<day, tick of day>> and SQLite compares the rendered texts. *)

isoformat(t) == <<t \div TicksPerDay, t % TicksPerDay>>

NULL == <<>>

\* a <= b on rendered timestamps (text comparison, most significant field first)
IsoLeq(a, b) == a[1] < b[1] \/ (a[1] = b[1] /\ a[2] <= b[2])

IsoLess(a, b) == a[1] < b[1] \/ (a[1] = b[1] /\ a[2] < b[2])

_day_bounds(local_dt) ==
    LET start == local_dt - (local_dt % TicksPerDay)
    IN  [start |-> start, end |-> start + TicksPerDay]

_schedule_time_for_day_same_day(local_dt) ==
    (local_dt % TicksPerDay) + SETTINGS.schedule_tick

_schedule_time_for_day(local_dt) ==
    (local_dt - (local_dt % TicksPerDay)) + SETTINGS.schedule_tick

-----------------------------------------------------------------------------
(* utils/logger.py *)

\* dict.get(key, default)
Get(d, key, default) == IF key \in DOMAIN d THEN d[key] ELSE default

article_seen(brand_name, article_title, article_url) ==
    IF brand_name = "" \/ article_title = <<>> THEN FALSE
    ELSE \E r \in article_history :
            /\ r.brand_name = brand_name
            /\ r.article_title = article_title
            /\ r.article_url = article_url

\* the table after INSERT ... ON CONFLICT(brand_name, article_title, article_url) DO UPDATE
record_article_check_insert(table, brand_name, article_title, article_url, status, reason) ==
    IF brand_name = "" \/ article_title = <<>> THEN table
    ELSE table \cup {[brand_name |-> brand_name, article_title |-> article_title,
                      article_url |-> article_url, checked_at |-> clock,
                      status |-> status, reason |-> reason]}

record_article_check(table, brand_name, article_title, article_url, status, reason) ==

    IF brand_name = "" \/ article_title = <<>> THEN table
    ELSE {r \in table : ~(/\ r.brand_name = brand_name
                          /\ r.article_title = article_title
                          /\ r.article_url = article_url)}
         \cup {[brand_name |-> brand_name, article_title |-> article_title,
                article_url |-> article_url, checked_at |-> clock,
                status |-> status, reason |-> reason]}

log_scheduled_post_dropped(payload) == <<>>

\* the row appended to post_log
log_scheduled_post(payload) == <<payload>>


log_posted_post(payload) ==
    log_scheduled_post([payload EXCEPT !.status = IF payload.status = "" THEN "posted"
                                                  ELSE payload.status])

has_posted_today(brand_name, day_start, day_end) ==
    \E i \in 1..Len(post_log) :
        /\ post_log[i].brand_name = brand_name
        /\ post_log[i].status = "posted"
        /\ post_log[i].posted_time # NULL
        /\ IsoLeq(day_start, post_log[i].posted_time)
        /\ IsoLess(post_log[i].posted_time, day_end)

has_scheduled_between_posted(brand_name, day_start, day_end) ==
    \E i \in 1..Len(post_log) :
        /\ post_log[i].brand_name = brand_name
        /\ post_log[i].status = "posted"
        /\ post_log[i].scheduled_time # NULL
        /\ IsoLeq(day_start, post_log[i].scheduled_time)
        /\ IsoLess(post_log[i].scheduled_time, day_end)

has_scheduled_between(brand_name, day_start, day_end) ==
    \E i \in 1..Len(post_log) :
        /\ post_log[i].brand_name = brand_name
        /\ post_log[i].status = "scheduled"
        /\ post_log[i].scheduled_time # NULL
        /\ IsoLeq(day_start, post_log[i].scheduled_time)
        /\ IsoLess(post_log[i].scheduled_time, day_end)

\* the last `count` posted product names of the brand, most recent first
RECURSIVE LastPosted(_, _, _)
LastPosted(brand_name, n, count) ==
    IF n = 0 \/ count = 0 THEN <<>>
    ELSE IF post_log[n].brand_name = brand_name /\ post_log[n].status = "posted"
    THEN <<post_log[n].product_name>> \o LastPosted(brand_name, n - 1, count - 1)
    ELSE LastPosted(brand_name, n - 1, count)

get_last_products(brand_name, count) == LastPosted(brand_name, Len(post_log), count)

build_log_payload(entry, product, caption, status, reason) ==
    [rss_source |-> Get(entry, "source", ""),
     article_title |-> Get(entry, "title", <<>>),
     article_url |-> Get(entry, "url", ""),
     product_name |-> Get(product, "product_name", <<>>),
     product_image_url |-> Get(product, "product_image_url", ""),
     caption |-> caption, status |-> status, reason |-> reason]

\* the rows appended to logs (the spreadsheet append is best effort and has no
\* effect on the store)
_log_and_continue(entry, product, caption, status, reason) ==
    <<build_log_payload(entry, product, caption, status, reason)>>

-----------------------------------------------------------------------------
(* main.py: _process_entry *)

\* f"{score:.2f}" of a score in thousandths
Fmt2(score) ==
    LET h == (score + 5) \div 10
    IN  <<ToString(h \div 100), ".", ToString((h % 100) \div 10), ToString(h % 10)>>

post_status_strict(sched, nowl) == IF sched < nowl THEN "posted" ELSE "scheduled"

\* status = "posted" if scheduled_time <= now_local else "scheduled"
post_status(sched, nowl) == IF sched <= nowl THEN "posted" ELSE "scheduled"

_repeat_product_return_recorded(base, brand_name, title, url) ==
    [base EXCEPT !.reason = <<"repeat_product">>,
                 !.history = record_article_check(article_history, brand_name, title, url,
                                                  "skipped", <<"repeat_product">>)]

\* the return at the repeat guard (main.py 117-120): unlike the other
\* rejections it logs nothing and records nothing for the entry's key
_repeat_product_return(base, brand_name, title, url) ==
    [base EXCEPT !.reason = <<"repeat_product">>]

is_repeat_product_latest_only(lastp, product_name) ==
    SETTINGS.avoid_repeat_product /\ lastp # <<>> /\ lastp[1] = product_name

\* the condition of the repeat guard (main.py 118)
is_repeat_product(lastp, product_name) ==
    /\ SETTINGS.avoid_repeat_product
    /\ lastp # <<>>
    /\ \E i \in 1..Len(lastp) : lastp[i] = product_name

missing_precondition_no_workspace_check(product, brand) ==

    IF Get(product, "product_image_url", "") = "" THEN <<"Missing product image URL">>
    ELSE IF SETTINGS.postly_api_key = "" THEN <<"Missing POSTLY_API_KEY">>
    ELSE IF Get(brand, "target_platforms", "") = "" THEN <<"Missing target platforms">>
    ELSE <<>>


\* the four checks between generate_caption and create_post (main.py 125-181),
\* in the order of the code: the reason of the first that fails, <<>> when a
\* post can be requested
missing_precondition(product, brand) ==
    LET target_platforms == Get(brand, "target_platforms", "")
        workspace_ids == IF Get(brand, "workspace_ids", "") # ""
                         THEN Get(brand, "workspace_ids", "")
                         ELSE SETTINGS.postly_workspace_ids
    IN  IF Get(product, "product_image_url", "") = "" THEN <<"Missing product image URL">>
        ELSE IF SETTINGS.postly_api_key = "" THEN <<"Missing POSTLY_API_KEY">>
        ELSE IF target_platforms = "" THEN <<"Missing target platforms">>
        ELSE IF workspace_ids = "" THEN <<"Missing workspace IDs">>
        ELSE <<>>

\* The outcome of _process_entry, given the results sf of safety_filter and m of

\* select_best_product (each used only where the code makes the call): the returned pair (posted, reason), whether an
\* exception left the function (raised), the rows appended to logs and post_log,
\* article_history afterwards, the create_post requests issued and the external
\* calls made in order.  hb, rel, rr are the replies of the hard-block
\* classifier, the relevance classifier and the re-rank chooser; cap and cp are
\* "ok" or "raise" for generate_caption and create_post.
_process_entry_body(entry, brand, lastp, sched, nowl, sf, m, cap, cp) ==
    LET brand_name == Get(brand, "brand_name", "")
        title == Get(entry, "title", <<>>)
        url == Get(entry, "url", "")
        product == m.product
        score == m.score
        product_name == Get(product, "product_name", <<>>)
        caption == "caption"
        nomatch == <<"No product match (score=">> \o Fmt2(score) \o <<")">>
        status == post_status(sched, nowl)
        post_payload ==
            [brand_name |-> brand_name, product_name |-> product_name,
             article_title |-> title, article_url |-> url,
             image_url |-> Get(product, "product_image_url", ""),
             scheduled_time |-> isoformat(sched),
             posted_time |-> IF status = "posted" THEN isoformat(nowl) ELSE NULL,
             status |-> status]
        c1 == sf.calls
        c2 == c1 \o <<"select_best_product">> \o m.calls
        c3 == c2 \o <<"generate_caption">>
        c4 == c3 \o <<"create_post">>
        nom == [product |-> EmptyDict, score |-> 0, raised |-> FALSE, calls |-> <<>>]
        base == [posted |-> FALSE, reason |-> <<>>, raised |-> FALSE, logs |-> <<>>,
                 history |-> article_history, rows |-> <<>>, requests |-> 0,
                 calls |-> c1, sf |-> sf, m |-> nom]
        failed(reason) ==
            [base EXCEPT !.reason = reason, !.calls = c3, !.m = m,
                !.logs = _log_and_continue(entry, product, caption, "failed", reason),
                !.history = record_article_check(article_history, brand_name, title, url,
                                                 "failed", reason)]
    IN  IF sf.raised THEN [base EXCEPT !.raised = TRUE]
        ELSE IF ~sf.ok
        THEN [base EXCEPT !.reason = sf.reason,
                 !.logs = _log_and_continue(entry, EmptyDict, "", "skipped", sf.reason),
                 !.history = record_article_check(article_history, brand_name, title, url,
                                                  "skipped", sf.reason)]
        ELSE IF m.raised THEN [base EXCEPT !.raised = TRUE, !.calls = c2, !.m = m]
        ELSE IF ~Truthy(product)
        THEN [base EXCEPT !.reason = <<"No product match">>, !.calls = c2, !.m = m,
                 !.logs = _log_and_continue(entry, EmptyDict, "", "skipped", nomatch),
                 !.history = record_article_check(article_history, brand_name, title, url,
                                                  "skipped", nomatch)]
        ELSE IF is_repeat_product(lastp, product_name)
        THEN [_repeat_product_return(base, brand_name, title, url) EXCEPT
                 !.calls = c2, !.m = m]
        ELSE IF cap = "raise" THEN [base EXCEPT !.raised = TRUE, !.calls = c3, !.m = m]
        ELSE IF missing_precondition(product, brand) # <<>>
        THEN failed(missing_precondition(product, brand))
        ELSE IF cp = "ok"
        THEN [base EXCEPT !.posted = TRUE, !.reason = <<status>>, !.calls = c4, !.m = m,
                 !.requests = 1,
                 !.rows = IF status = "posted" THEN log_posted_post(post_payload)
                          ELSE log_scheduled_post(post_payload),
                 !.logs = _log_and_continue(entry, product, caption, status, <<>>),
                 !.history = record_article_check(article_history, brand_name, title, url,
                                                  status, <<>>)]
        ELSE [base EXCEPT !.reason = <<"HTTPError">>, !.calls = c4, !.m = m,
                 !.requests = 1,
                 !.logs = _log_and_continue(entry, product, caption, "failed", <<"HTTPError">>),
                 !.rows = log_scheduled_post([post_payload EXCEPT !.posted_time = NULL,
                                                                  !.status = "failed"]),
                 !.history = record_article_check(article_history, brand_name, title, url,
                                                  "failed", <<"HTTPError">>)]

_process_entry(entry, prods, brand, lastp, sched, nowl, hb, rel, rr, cap, cp) ==
    _process_entry_body(entry, brand, lastp, sched, nowl,
                        safety_filter(entry, prods, hb, rel),
                        select_best_product(entry, prods, SETTINGS.product_match_threshold, rr),
                        cap, cp)

-----------------------------------------------------------------------------
(* Inputs: configuration, brand lists, catalogs, feeds and replies of the
   external services *)

Reply(content) == [raised |-> FALSE, content |-> content]

Outage == [raised |-> TRUE, content |-> <<>>]

HardblockNo == Reply(<<"H","A","R","D","B","L","O","C","K","=","n","o">>)

HardblockYes == Reply(<<"H","A","R","D","B","L","O","C","K","=","y","e","s",";","R","E","A","S","O","N","=","x">>)

RelatedHigh == Reply(<<"R","E","L","A","T","E","D","=","y","e","s",";","S","C","O","R","E","=","0",".","9","0">>)

Malformed == Reply(<<"S","o","r","r","y",","," ","I"," ","c","a","n","n","o","t"," ","a","n","s","w","e","r">>)

Choice1 == Reply(<<"C","H","O","I","C","E","=","1">>)

Choice2 == Reply(<<"C","H","O","I","C","E","=","2">>)

ChoiceNone == Reply(<<"C","H","O","I","C","E","=","N","O","N","E">>)

\* replies of the hard-block classifier: yes, no, not in the format; or an outage
HardblockReplies == { Outage, HardblockNo, HardblockYes, Malformed }

\* replies of the relevance classifier: at, above and below the threshold, not
\* related, score that is no number, no score, not in the format (apology, text
\* before the answer, no separator); or an outage
RelevanceReplies ==
    { Outage, RelatedHigh, Malformed,
      Reply(<<"R","E","L","A","T","E","D","=","y","e","s",";","S","C","O","R","E","=","0",".","4","0">>),
      Reply(<<"R","E","L","A","T","E","D","=","y","e","s",";","S","C","O","R","E","=","0",".","1","0">>),
      Reply(<<"R","E","L","A","T","E","D","=","n","o",";","S","C","O","R","E","=","0",".","9","0">>),
      Reply(<<"R","E","L","A","T","E","D","=","y","e","s",";","S","C","O","R","E","=","h","i","g","h">>),
      Reply(<<"R","E","L","A","T","E","D","=","y","e","s">>),
      Reply(<<"S","u","r","e",":"," ","R","E","L","A","T","E","D","=","y","e","s",";","S","C","O","R","E","=","0",".","9","0">>),
      Reply(<<"R","E","L","A","T","E","D","=","y","e","s"," ","S","C","O","R","E","=","0",".","9","0">>) }

\* replies of the re-rank chooser: an index in range, out of range, none, no
\* number, nothing after CHOICE=, not in the format; or an outage
RerankReplies ==
    { Outage, Choice1, Choice2, ChoiceNone, Malformed,
      Reply(<<"C","H","O","I","C","E","=","9">>),
      Reply(<<"C","H","O","I","C","E","=","0">>),
      Reply(<<"C","H","O","I","C","E","=","t","w","o">>),
      Reply(<<"C","H","O","I","C","E","=">>),
      Reply(<<"M","y"," ","c","h","o","i","c","e","=","2"," ","t","o","d","a","y">>) }

\* utils/config.py: Settings().  The thresholds are in hundredths (relevance)
\* and thousandths (product match); schedule_tick stands for
\* schedule_hour:schedule_minute.
Settings(novita, postly, match_threshold, rerank, avoid) ==
    [novita_api_key |-> novita,
     postly_api_key |-> postly,
     postly_workspace_ids |-> "",
     relevance_threshold |-> 40,
     product_match_threshold |-> match_threshold,
     use_ai_rerank |-> rerank,
     ai_rerank_top_n |-> 5,
     avoid_repeat_product |-> avoid,
     avoid_repeat_product_count |-> 2,
     schedule_tick |-> 1,
     caption_min_words |-> 100,
     caption_max_words |-> 150,
     hard_block_topics |-> << <<"p","r","e","g","n","a","n","c","y">>,
                              <<"c","h","i","l","d","r","e","n">>,
                              <<"c","a","n","c","e","r">>,
                              <<"d","i","a","b","e","t","e","s">>,
                              <<"m","e","n","t","a","l"," ","h","e","a","l","t","h">>,
                              <<"s","e","x","u","a","l"," ","h","e","a","l","t","h">> >>]

Product(name, category, benefit, ingredients, description, image) ==
    [is_empty_dict |-> FALSE, product_name |-> name, category |-> category,
     main_benefit |-> benefit, ingredients |-> ingredients, description |-> description,
     product_image_url |-> image]

ProductEye == Product(<<"E","y","e"," ","C","a","r","e">>, <<"e","y","e">>, <<>>, <<>>, <<"g","o","u","t">>, "img1")

ProductGout == Product(<<"G","o","u","t">>, <<>>, <<"E","y","e"," ","s","u","p","p","o","r","t">>, <<>>, <<>>, "img2")

ProductImmune == Product(<<"I","m","m","u","n","e">>, <<>>, <<>>, <<>>, <<"e","y","e"," ","a","n","d"," ","g","o","u","t">>, "")

CatalogTwo == <<ProductEye, ProductGout>>

CatalogNoImage == <<ProductImmune>>

\* catalogs load_products_from_csv can return
Catalogs == { <<>>, CatalogTwo, CatalogNoImage }

Brand(name, platforms, workspaces) ==
    [brand_name |-> name, target_platforms |-> platforms, workspace_ids |-> workspaces,
     tags |-> ""]

BrandX == Brand("X", "instagram", "w1")

Entry(title, url, summary) ==
    [source |-> "feed", title |-> title, url |-> url, summary |-> summary]

EntryEye == Entry(<<"E","y","e">>, "u1", <<"g","o","u","t"," ","s","t","u","d","y">>)

EntryCancer == Entry(<<"C","A","N","C","E","R">>, "u2", <<"e","y","e">>)

EntryGout == Entry(<<"G","o","u","t">>, "", <<>>)

EntryUntitled == Entry(<<>>, "u4", <<"e","y","e">>)

EntryNoTokens == Entry(<<"O","f">>, "u5", <<"h","e","a","l","t","h">>)

EntryPrecancerous == Entry(<<"P","r","e","c","a","n","c","e","r","o","u","s"," ","e","y","e">>, "u6", <<"M","e","n","t","a","l"," "," ","h","e","a","l","t","h">>)

EntryMental == Entry(<<"G","o","u","t"," ","a","n","d"," ","m","e","n","t","a","l">>, "u7", <<"H","e","a","l","t","h">>)

EntryUniverse ==
    { EntryEye, EntryCancer, EntryGout, EntryUntitled, EntryNoTokens, EntryPrecancerous,
      EntryMental }

\* the key dedupe_entries uses
EntryKey(e) == <<Lower(Strip(e.title)), e.url>>

\* the feeds of at most n entries over a set of entries that ingest_rss can
\* return: no two entries with the same key
Feeds(universe, n) ==
    {es \in UNION {[1..k -> universe] : k \in 0..n} :
        \A i, j \in 1..Len(es) : i # j => EntryKey(es[i]) # EntryKey(es[j])}

-----------------------------------------------------------------------------
(* main.py: run_daily and _schedule_for_brand *)

\* observation of a step that evaluated no entry
Obs(op, brand_name, state) ==
    [op |-> op, brand_name |-> brand_name, state |-> state, entry |-> EmptyDict,
     catalog |-> <<>>, seen |-> FALSE, posted |-> FALSE, reason |-> <<>>,
     raised |-> FALSE, calls |-> <<>>,
     sf |-> [ok |-> FALSE, reason |-> <<>>, raised |-> FALSE, calls |-> <<>>],
     m |-> [product |-> EmptyDict, score |-> 0, raised |-> FALSE, calls |-> <<>>],
     hb |-> Outage, rel |-> Outage, rr |-> Outage, cap |-> "raise", cp |-> "raise",
     min_score |-> 0]

\* no data/image_rotation.json yet: _load_rotation_state returns {}
NoRotation == [folder_path \in {} |-> 0]

InitWith(settings, clocks) ==
    /\ SETTINGS \in settings
    /\ clock \in clocks
    /\ pc = "idle"
    /\ runs = 0
    /\ brands = <<>>
    /\ bi = 0
    /\ products = <<>>
    /\ entries = <<>>
    /\ ei = 0
    /\ now_local = 0
    /\ scheduled_time = 0
    /\ last_products = <<>>
    /\ logs = <<>>
    /\ article_history = {}
    /\ post_log = <<>>
    /\ requests = 0
    /\ repeat_skips = {}
    /\ rotation_state = NoRotation
    /\ last = Obs("none", "", "")

\* time passes; the clock is read only when a brand's processing starts
Tick ==
    /\ pc # "scan"
    /\ clock < MaxClock
    /\ clock' = clock + 1
    /\ UNCHANGED <<SETTINGS, rotation_state, pc, runs, brands, bi, products, entries, ei, now_local,
                   scheduled_time, last_products, logs, article_history, post_log,
                   requests, repeat_skips, last>>

\* the for loop of run_daily moves to the next brand, or the run ends
NextBrand_same_brand == pc' = "brand" /\ bi' = bi

NextBrand_end_run ==
 pc' = "idle" /\ bi' = 0

NextBrand ==
    IF bi < Len(brands) THEN pc' = "brand" /\ bi' = bi + 1
    ELSE pc' = "idle" /\ bi' = 0

\* run_daily up to the first brand, for the brand lists load_brands_from_csv
\* can return
RunStart(brandLists, maxRuns) ==
    /\ pc \in {"idle", "crashed"}
    /\ runs < maxRuns
    /\ runs' = runs + 1
    /\ \E bl \in brandLists :
        /\ brands' = bl
        /\ IF bl = <<>>
           THEN /\ logs' = logs \o _log_and_continue(EmptyDict, EmptyDict, "", "failed",
                                                     <<"Brands.csv is empty">>)
                /\ pc' = "idle"
                /\ bi' = 0
                /\ last' = Obs("run", "", "NO_BRANDS")
           ELSE /\ logs' = logs
                /\ pc' = "brand"
                /\ bi' = 1
                /\ last' = Obs("run", "", "STARTED")
    /\ UNCHANGED <<SETTINGS, rotation_state, clock, products, entries, ei, now_local, scheduled_time,
                   last_products, article_history, post_log, requests, repeat_skips>>

\* what a step of the brand loop leaves to observe: the brand, how the step ended
\* and the catalog load_products_from_csv returned
BrandObs(brand_name, state, cat) ==
    [Obs("brand", brand_name, state) EXCEPT !.catalog = cat]

\* One iteration of the brand loop up to the call of _schedule_for_brand, for
\* the catalogs and feeds the loaders can return; fault names the loader that
\* raises, if any.
BrandStep(catalogs, feeds, faults) ==
    /\ pc = "brand"
    /\ LET brand == brands[bi]
           brand_name == Get(brand, "brand_name", "Unknown")
           now == clock
           today == _day_bounds(now)
           tomorrow == _day_bounds(now + TicksPerDay)
           posted_today == has_posted_today(brand_name, isoformat(today.start),
                                            isoformat(today.end))
           slot == _schedule_time_for_day(today.start)
       IN  \E cat \in catalogs, feed \in feeds, fault \in faults :
            IF fault = "catalog" \/ (cat # <<>> /\ fault = "feed")
            THEN /\ pc' = "crashed"
                 /\ last' = [Obs("brand", brand_name, "FAULT") EXCEPT !.raised = TRUE]
                 /\ UNCHANGED <<bi, products, entries, ei, now_local, scheduled_time,
                                last_products, logs>>
            ELSE IF cat = <<>>
            THEN /\ logs' = logs \o _log_and_continue(EmptyDict, EmptyDict, "", "failed",
                                        <<"Product catalog empty for ", brand_name>>)
                 /\ NextBrand
                 /\ last' = BrandObs(brand_name, "CATALOG_EMPTY", cat)
                 /\ UNCHANGED <<products, entries, ei, now_local, scheduled_time,
                                last_products>>
            ELSE /\ products' = cat
                 /\ entries' = feed
                 /\ now_local' = now
                 /\ last_products' = get_last_products(brand_name,
                                                       SETTINGS.avoid_repeat_product_count)
                 /\ IF posted_today
                    THEN IF has_scheduled_between(brand_name, isoformat(tomorrow.start),
                                                  isoformat(tomorrow.end))
                         THEN /\ NextBrand
                              /\ last' = BrandObs(brand_name, "ALREADY_SCHEDULED", cat)
                              /\ UNCHANGED <<ei, scheduled_time>>
                         ELSE /\ scheduled_time' = _schedule_time_for_day(tomorrow.start)
                              /\ pc' = "scan"
                              /\ ei' = 1
                              /\ bi' = bi
                              /\ last' = BrandObs(brand_name, "TOMORROW_SLOT", cat)
                    ELSE /\ scheduled_time' = IF now >= slot THEN now ELSE slot
                         /\ pc' = "scan"
                         /\ ei' = 1
                         /\ bi' = bi
                         /\ last' = BrandObs(brand_name, "TODAY_SLOT", cat)
                 /\ logs' = logs
    /\ UNCHANGED <<SETTINGS, rotation_state, clock, runs, brands, article_history, post_log, requests,
                   repeat_skips>>

Called(name, calls) == \E i \in 1..Len(calls) : calls[i] = name

\* The outcomes of an external call that matter to an evaluation: all of them
\* when the evaluation makes the call (probe: the evaluation in which the call
\* raises), a single placeholder when it does not.
Consulted(name, outcomes, placeholder, probe) ==
    IF Called(name, probe.calls) THEN outcomes ELSE {placeholder}

_scan_next_never_returns(posted, reason) == "continue"

_scan_next_stop_on_failure(posted, reason) ==

    IF reason = <<"repeat_product">> THEN "continue" ELSE "return True"

\* what the entry loop of _schedule_for_brand does with the pair _process_entry
\* returned (main.py 269-273): only a post ends the scan
_scan_next(posted, reason) ==
    IF reason = <<"repeat_product">> THEN "continue"
    ELSE IF posted THEN "return True"
    ELSE "continue"

\* The rest of an iteration of the entry loop of _schedule_for_brand once
\* _process_entry ended with outcome r.
EntryOutcome(brand_name, entry, hb, rel, rr, cap, cp, r) ==
    LET obs == [Obs("entry", brand_name, "SCANNING") EXCEPT
                   !.entry = entry, !.catalog = products, !.posted = r.posted,
                   !.reason = r.reason, !.raised = r.raised, !.calls = r.calls,
                   !.sf = r.sf, !.m = r.m, !.hb = hb, !.rel = rel, !.rr = rr,
                   !.cap = cap, !.cp = cp]
    IN  /\ logs' = logs \o r.logs
        /\ article_history' = r.history
        /\ post_log' = post_log \o r.rows
        /\ requests' = requests + r.requests
        /\ repeat_skips' = IF ~r.raised /\ r.reason = <<"repeat_product">>
                           THEN repeat_skips \cup {<<runs, brand_name, Get(entry, "title", <<>>),
                                                      Get(entry, "url", "")>>}
                           ELSE repeat_skips
        /\ IF r.raised
           THEN /\ pc' = "crashed"
                /\ last' = obs
                /\ UNCHANGED <<bi, ei>>
           ELSE IF _scan_next(r.posted, r.reason) = "return True"
           THEN /\ NextBrand
                /\ last' = [obs EXCEPT !.state = "SCHEDULED"]
                /\ UNCHANGED ei
           ELSE /\ ei' = ei + 1
                /\ last' = obs
                /\ UNCHANGED <<pc, bi>>

\* One iteration of the entry loop of _schedule_for_brand, for the replies the
\* external services can give.
ScanStep(hbs, rels, rrs, caps, cps) ==
    /\ pc = "scan"
    /\ ei <= Len(entries)
    /\ LET brand == brands[bi]
           brand_name == Get(brand, "brand_name", "")
           entry == entries[ei]
           eval(hb, rel, rr, cap, cp) ==
               _process_entry(entry, products, brand, last_products, scheduled_time,
                              now_local, hb, rel, rr, cap, cp)
       IN  IF article_seen(brand_name, Get(entry, "title", <<>>),
                           Get(entry, "article_url", ""))
           THEN /\ ei' = ei + 1
                /\ last' = [Obs("entry", brand_name, "SCANNING") EXCEPT
                               !.entry = entry, !.seen = TRUE]
                /\ UNCHANGED <<pc, bi, logs, article_history, post_log, requests,
                               repeat_skips>>
           ELSE \E hb \in Consulted("ai_hardblock_check", hbs, Outage,
                                    eval(Outage, Outage, Outage, "raise", "raise")) :
                \E rel \in Consulted("ai_product_relevance_check", rels, Outage,
                                     eval(hb, Outage, Outage, "raise", "raise")) :
                \E rr \in Consulted("_ai_rerank", rrs, Outage,
                                    eval(hb, rel, Outage, "raise", "raise")) :
                \E cap \in Consulted("generate_caption", caps, "raise",
                                     eval(hb, rel, rr, "raise", "raise")) :
                \E cp \in Consulted("create_post", cps, "raise",
                                    eval(hb, rel, rr, cap, "raise")) :
                \E r \in {eval(hb, rel, rr, cap, cp)} :
                    EntryOutcome(brand_name, entry, hb, rel, rr, cap, cp, r)


    /\ UNCHANGED <<SETTINGS, rotation_state, clock, runs, brands, products, entries, now_local,
                   scheduled_time, last_products>>

\* the entry list is consumed: _schedule_for_brand returns False
ScanEnd ==
    /\ pc = "scan"
    /\ ei > Len(entries)
    /\ logs' = logs \o _log_and_continue(EmptyDict, EmptyDict, "", "failed",
                          <<"No valid articles found for ", brands[bi].brand_name>>)
    /\ NextBrand
    /\ last' = Obs("brand", brands[bi].brand_name, "EXHAUSTED")
    /\ UNCHANGED <<SETTINGS, rotation_state, clock, runs, brands, products, entries, ei, now_local,
                   scheduled_time, last_products, article_history, post_log, requests,
                   repeat_skips>>

\* what a call of safety_filter with result sf leaves to observe
SafetyObs(entry, prods, hb, rel, sf) ==
    [Obs("safety_filter", "", "") EXCEPT
        !.entry = entry, !.catalog = prods, !.raised = sf.raised, !.calls = sf.calls,
        !.sf = sf, !.hb = hb, !.rel = rel]

\* safety_filter(entry, products) is called once on its own, for the replies the
\* two classifiers can give
CallSafetyFilter(entrySet, catalogs, hbs, rels) ==
    /\ last.op = "none"
    /\ \E entry \in entrySet, prods \in catalogs, hb \in hbs, rel \in rels :
          last' = SafetyObs(entry, prods, hb, rel, safety_filter(entry, prods, hb, rel))
    /\ UNCHANGED <<SETTINGS, rotation_state, clock, pc, runs, brands, bi, products, entries, ei, now_local,
                   scheduled_time, last_products, logs, article_history, post_log,
                   requests, repeat_skips>>

\* what a call of select_best_product with result m leaves to observe
MatchObs(entry, prods, min_score, rr, m) ==
    [Obs("select_best_product", "", "") EXCEPT
        !.entry = entry, !.catalog = prods, !.raised = m.raised, !.calls = m.calls,
        !.m = m, !.rr = rr, !.min_score = min_score]

\* select_best_product(entry, products, min_score) is called once on its own,
\* for the replies the re-rank chooser can give
CallSelectBestProduct(entrySet, catalogs, minScores, rrs) ==
    /\ last.op = "none"
    /\ \E entry \in entrySet, prods \in catalogs, min_score \in minScores, rr \in rrs :
          last' = MatchObs(entry, prods, min_score, rr,
                           select_best_product(entry, prods, min_score, rr))
    /\ UNCHANGED <<SETTINGS, rotation_state, clock, pc, runs, brands, bi, products, entries, ei, now_local,
                   scheduled_time, last_products, logs, article_history, post_log,
                   requests, repeat_skips>>

\* what a call of _ai_rerank with result r leaves to observe
RerankObs(entry, prods, rr, r) ==
    [Obs("_ai_rerank", "", "") EXCEPT
        !.entry = entry, !.catalog = prods, !.raised = r.raised, !.rr = rr,
        !.calls = IF r.called THEN <<"_ai_rerank">> ELSE <<>>,
        !.m = [product |-> r.product, score |-> r.score, raised |-> r.raised,
               calls |-> IF r.called THEN <<"_ai_rerank">> ELSE <<>>]]

\* the candidates select_best_product hands to _ai_rerank
top_ranked(entry, prods) ==
    LET positive(item) == item.score > 0
    IN  Prefix(SelectSeq(_rank_by_keywords(entry, prods), positive),
               SETTINGS.ai_rerank_top_n)

\* _ai_rerank(entry, top_ranked) is called once on its own, for the replies the
\* re-rank chooser can give
CallAiRerank(entrySet, catalogs, rrs) ==
    /\ last.op = "none"
    /\ \E entry \in entrySet, prods \in catalogs, rr \in rrs :
          last' = RerankObs(entry, prods, rr,
                            _ai_rerank(entry, top_ranked(entry, prods), rr))
    /\ UNCHANGED <<SETTINGS, rotation_state, clock, pc, runs, brands, bi, products, entries, ei, now_local,
                   scheduled_time, last_products, logs, article_history, post_log,
                   requests, repeat_skips>>

-----------------------------------------------------------------------------
(* Spec: the day check over successive runs.
  One brand with a two-product
   catalog, feeds of at most one entry that passes the safety filter; the
   scheduler accepts or refuses the request. *)

Init == InitWith({Settings("k", "p", 100, FALSE, FALSE)}, {0})

\* input sets of the actions: no loader fault, a reranker that is down, a
\* caption service that answers, a Postly call that answers or raises
NoFault == {"none"}

OutageOnly == {Outage}

Succeeds == {"ok"}

SucceedsOrRaises == {"ok", "raise"}

\* load_brands_from_csv returns the one configured brand
OneBrand == {<<BrandX>>}

\* load_products_for_brand returns the two-product catalog
FullCatalog == {CatalogTwo}

\* load_products_for_brand returns no product or the two-product catalog
EmptyOrFullCatalog == {<<>>, CatalogTwo}

\* ingest_rss returns at most one of the two entries
OneEntryFeeds == Feeds({EntryEye, EntryGout}, 1)

\* the classifier and the relevance gate let the entry pass
PassHardblock == {HardblockNo}

PassRelevance == {RelatedHigh}

\* the classifier lets the entry pass or is down
PassOrOutage == {HardblockNo, Outage}

\* the relevance gate lets the entry pass or answers without a score
PassOrMalformed == {RelatedHigh, Malformed}

Next ==
    \/ Tick
    \/ RunStart(OneBrand, MaxRuns)
    \/ BrandStep(EmptyOrFullCatalog, OneEntryFeeds, NoFault)
    \/ ScanStep(PassHardblock, PassRelevance, OutageOnly, Succeeds, SucceedsOrRaises)
    \/ ScanEnd

Spec == Init /\ [][Next]_vars

-----------------------------------------------------------------------------
(* Claims about the day check (Spec) *)

\* the brand being processed and the local day of the wall clock
CurrentBrand == brands[bi].brand_name

Today == clock \div TicksPerDay

\* the configured hour:minute of a day
SlotOf(day) == day * TicksPerDay + SETTINGS.schedule_tick

\* the brand has a 'posted' record inside the day's [00:00, 24:00) window
PostedOn(b, day) ==
    \E i \in 1..Len(post_log) :
        /\ post_log[i].brand_name = b
        /\ post_log[i].status = "posted"
        /\ post_log[i].posted_time # NULL
        /\ post_log[i].posted_time[1] = day

\* the brand has a 'scheduled' record inside the day's window
ScheduledOn(b, day) ==
    \E i \in 1..Len(post_log) :
        /\ post_log[i].brand_name = b
        /\ post_log[i].status = "scheduled"
        /\ post_log[i].scheduled_time[1] = day

\* a step of run_daily that starts a brand's processing
IsBrandStep == pc = "brand" /\ clock' = clock

\* C1: when a brand's processing starts while the brand has a 'posted' record
\* today and a 'scheduled' record tomorrow, the step ends the brand's processing
\* as ALREADY_SCHEDULED (the day check is made for a brand whose catalog is not
\* empty): it appends no post_log record, issues no create_post request, writes
\* no article_history record and starts no scan; and no scan is ever in
\* progress for a brand in that situation.
C1_AlreadyScheduledIsNoOp ==
    /\ [][(IsBrandStep /\ PostedOn(CurrentBrand, Today)
                       /\ ScheduledOn(CurrentBrand, Today + 1))
            => /\ post_log' = post_log
               /\ requests' = requests
               /\ article_history' = article_history
               /\ pc' # "scan"
               /\ last'.state \in {"ALREADY_SCHEDULED", "CATALOG_EMPTY"}
               /\ last'.calls = <<>>]_vars
    /\ [](pc = "scan" => ~(/\ PostedOn(CurrentBrand, now_local \div TicksPerDay)
                           /\ ScheduledOn(CurrentBrand, (now_local \div TicksPerDay) + 1)))

\* a third run of the day found the brand posted today and scheduled tomorrow
C1_Witness ==
    /\ last.op = "brand"
    /\ last.state = "ALREADY_SCHEDULED"
    /\ runs >= 3
    /\ PostedOn(last.brand_name, Today)
    /\ ScheduledOn(last.brand_name, Today + 1)

\* C4: the target time passed to the scan is today's slot when the brand has
\* not posted today and now is before the slot, now when it has not posted
\* today and now is at or after the slot, and tomorrow's slot when it has posted
\* today and has no 'scheduled' record tomorrow; the scan keeps that target.
C4_TargetSlot ==
    /\ [][(IsBrandStep /\ pc' = "scan")
            => /\ now_local' = clock
               /\ IF ~PostedOn(CurrentBrand, Today)
                  THEN IF clock < SlotOf(Today)
                       THEN scheduled_time' = SlotOf(Today)
                       ELSE scheduled_time' = clock
                  ELSE /\ ~ScheduledOn(CurrentBrand, Today + 1)
                       /\ scheduled_time' = SlotOf(Today + 1)]_vars
    /\ [][pc = "scan" => scheduled_time' = scheduled_time /\ now_local' = now_local]_vars

\* a scan was started for tomorrow's slot, as the brand posted today
C4_Witness ==
    /\ pc = "scan"
    /\ last.state = "TOMORROW_SLOT"
    /\ PostedOn(CurrentBrand, Today)
    /\ scheduled_time = SlotOf(Today + 1)

\* the article_history records of an article
HistoryOf(b, title, url) ==
    {r \in article_history :
        r.brand_name = b /\ r.article_title = title /\ r.article_url = url}

\* C5: after a successful create_post the status of the post_log record, of the
\* log and of the article_history record is 'posted' if the target time is at
\* or before now and 'scheduled' otherwise; a post for tomorrow's slot is
\* 'scheduled', a post for a slot that has passed is 'posted'.
C5_StatusAfterPost ==
    (last.op = "entry" /\ last.posted) =>
        LET st == IF scheduled_time <= now_local THEN "posted" ELSE "scheduled"
            row == post_log[Len(post_log)]
        IN  /\ row.status = st
            /\ row.article_title = last.entry.title
            /\ logs[Len(logs)].status = st
            /\ logs[Len(logs)].article_title = last.entry.title
            /\ \A r \in HistoryOf(last.brand_name, last.entry.title, last.entry.url) :
                   r.status = st
            /\ (last.entry.title # <<>> =>
                   HistoryOf(last.brand_name, last.entry.title, last.entry.url) # {})
            /\ (scheduled_time \div TicksPerDay > now_local \div TicksPerDay
                   => row.status = "scheduled")
            /\ (scheduled_time = now_local => row.status = "posted")

\* a brand that posted today got its post for tomorrow's slot accepted
C5_Witness ==
    /\ last.op = "entry"
    /\ last.posted
    /\ PostedOn(last.brand_name, now_local \div TicksPerDay)
    /\ scheduled_time = SlotOf((now_local \div TicksPerDay) + 1)
    /\ post_log[Len(post_log)].status = "scheduled"

-----------------------------------------------------------------------------
(* SpecScan: the entry scan over successive runs made within one tick at the
   slot.  One brand with a two-product catalog and the repeat guard on; feeds
   over an entry that matches, an entry with a blocked topic and an entry
   without a link; the classifiers answer or are down, the relevance
   classifier may answer out of format, the scheduler accepts or refuses. *)

ScanEntries == {EntryEye, EntryGout}

InitScan == InitWith({Settings("k", "p", 100, FALSE, TRUE)}, {1})

\* ingest_rss returns at most MaxEntries of the scan entries
ScanFeeds == Feeds(ScanEntries, MaxEntries)

NextScan ==
    \/ RunStart(OneBrand, ScanRuns)
    \/ BrandStep(FullCatalog, ScanFeeds, NoFault)
    \/ ScanStep(PassOrOutage, PassOrMalformed, OutageOnly, Succeeds, SucceedsOrRaises)
    \/ ScanEnd

SpecScan == InitScan /\ [][NextScan]_vars

-----------------------------------------------------------------------------
(* Claims about the scan (SpecScan) *)

\* the scan is about to meet an entry
AtEntry == pc = "scan" /\ ei <= Len(entries)

ScanEntry == entries[ei]

\* the entry was rejected at the repeat guard in an earlier run of the brand
RepeatSkippedBefore(b, e) ==
    \E k \in 1..(runs - 1) : <<k, b, e.title, e.url>> \in repeat_skips

\* C2: a scan that meets an entry whose (brand, title, url) triple is in
\* article_history skips it: the step evaluates nothing and writes nothing.
C2_RecordedEntriesAreSkipped ==
    [][(AtEntry /\ HistoryOf(CurrentBrand, ScanEntry.title, ScanEntry.url) # {})
        => /\ last'.op = "entry"
           /\ last'.seen
           /\ last'.calls = <<>>
           /\ article_history' = article_history]_vars

C7_FailClosed ==
    [][(/\ AtEntry
        /\ last'.op = "entry"
        /\ ~last'.seen
        /\ \/ SETTINGS.novita_api_key = ""
           \/ Called("ai_hardblock_check", last'.calls) /\ last'.hb = Outage
           \/ Called("ai_product_relevance_check", last'.calls) /\ last'.rel = Outage)
        => /\ ~last'.raised
           /\ ~last'.sf.ok
           /\ last'.sf.reason # <<>>
           /\ pc' = "scan"
           /\ ei' = ei + 1]_vars

-----------------------------------------------------------------------------
(* SpecSafety: safety_filter on its own, with and without classifier
   credentials, over entries with and without blocked topics and every kind
   of classifier reply. *)

InitSafety == InitWith({Settings(k, "p", 100, FALSE, FALSE) : k \in {"", "k"}}, {0})

NextSafety == CallSafetyFilter(EntryUniverse, Catalogs, HardblockReplies, RelevanceReplies)

SpecSafety == InitSafety /\ [][NextSafety]_vars

\* the lowered combined text of the entry last given to safety_filter
LastText == Lower(Combined(last.entry))

\* the configured topics the text contains as substrings
TopicsIn(text) ==
    {SETTINGS.hard_block_topics[k] : k \in
        {j \in 1..Len(SETTINGS.hard_block_topics) :
            Contains(SETTINGS.hard_block_topics[j], text)}}

\* C6: for an entry whose combined title and summary contain a configured
\* topic, in any letter case, safety_filter returns (False, 'Hard-blocked topic
\* detected: <topic>') for a topic the text contains, with or without
\* classifier credentials, raises nothing and calls neither classifier.
C6_KeywordGateFirst ==
    (last.op = "safety_filter" /\ TopicsIn(LastText) # {}) =>
        /\ ~last.sf.ok
        /\ ~last.sf.raised
        /\ \E topic \in TopicsIn(LastText) :
               last.sf.reason = <<"Hard-blocked topic detected: ">> \o topic
        /\ last.sf.calls = <<>>

\* without credentials, an entry titled CANCER was rejected by the keyword gate
C6_Witness ==
    /\ last.op = "safety_filter"
    /\ SETTINGS.novita_api_key = ""
    /\ last.entry = EntryCancer
    /\ ~last.sf.ok
    /\ last.sf.reason = <<"Hard-blocked topic detected: ", "c", "a", "n", "c", "e", "r">>
    /\ last.sf.calls = <<>>

\* the reply follows HARDBLOCK=yes... or HARDBLOCK=no...
HardblockFormat(reply) ==
    LET content == Lower(Strip(reply.content))
    IN  \/ StartsWith(content, <<"h","a","r","d","b","l","o","c","k","=","y","e","s">>)
        \/ StartsWith(content, <<"h","a","r","d","b","l","o","c","k","=","n","o">>)

\* the reply follows RELATED=yes|no;SCORE=<number>
RelatedFormat(reply) ==
    LET content == Lower(Strip(reply.content))
        score_str == Strip(SplitFirst(SplitSecond(content, <<"s","c","o","r","e","=">>),
                                      <<";">>))
    IN  /\ \/ StartsWith(content, <<"r","e","l","a","t","e","d","=","y","e","s",";">>)
           \/ StartsWith(content, <<"r","e","l","a","t","e","d","=","n","o",";">>)
        /\ Contains(<<";","s","c","o","r","e","=">>, content)
        /\ ParseFloat(score_str).ok

\* the classifier was called and answered, out of format
MalformedHardblock ==
    /\ Called("ai_hardblock_check", last.sf.calls)
    /\ ~last.hb.raised
    /\ ~HardblockFormat(last.hb)

MalformedRelevance ==
    /\ Called("ai_product_relevance_check", last.sf.calls)
    /\ ~last.rel.raised
    /\ ~RelatedFormat(last.rel)

\* C8: when a classifier that safety_filter calls answers out of format,
\* safety_filter rejects the entry and raises nothing.
C8_MalformedReplyRejects ==
    (last.op = "safety_filter" /\ (MalformedHardblock \/ MalformedRelevance)) =>
        /\ ~last.sf.ok
        /\ ~last.sf.raised

-----------------------------------------------------------------------------
(* SpecMatcher: select_best_product on its own, with re-ranking on and off,
   with and without chooser credentials, for thresholds below, between and
   above the lexical scores and every kind of chooser reply. *)

MinScores == {100, 2500, 3500}

InitMatcher ==
    InitWith({Settings(k, "p", 100, r, FALSE) : k \in {"", "k"}, r \in BOOLEAN}, {0})

NextMatcher == CallSelectBestProduct(EntryUniverse, Catalogs, MinScores, RerankReplies)

SpecMatcher == InitMatcher /\ [][NextMatcher]_vars

\* the lexical ranking of the catalog for the entry last given to
\* select_best_product
LastRanked == _rank_by_keywords(last.entry, last.catalog)

\* C9: select_best_product returns no product with a score below min_score, and
\* when the top lexical candidate scores below min_score it returns no product
\* and that candidate's score.
C9_NeverBelowMinScore ==
    (last.op = "select_best_product" /\ ~last.m.raised) =>
        /\ Truthy(last.m.product) => last.m.score >= last.min_score
        /\ (LastRanked # <<>> /\ LastRanked[1].score < last.min_score) =>
               /\ ~Truthy(last.m.product)
               /\ last.m.score = LastRanked[1].score

\* re-ranking is enabled and the chooser gives no candidate: it has no
\* credentials, replies none, or gives no usable index
RerankYieldsNothing ==
    /\ SETTINGS.use_ai_rerank
    /\ ~last.m.raised
    /\ \/ SETTINGS.novita_api_key = ""
       \/ /\ ~last.rr.raised
          /\ LET r == _ai_rerank(last.entry, LastRanked, last.rr)
             IN  ~r.raised /\ ~Truthy(r.product)

\* C10: when re-ranking is disabled or yields nothing and the top lexical
\* candidate scores at least min_score, select_best_product returns that
\* candidate and its score.
C10_FallsBackToTopLexical ==
    (/\ last.op = "select_best_product"
     /\ LastRanked # <<>>
     /\ LastRanked[1].score >= last.min_score
     /\ (~SETTINGS.use_ai_rerank \/ RerankYieldsNothing)) =>
        /\ ~last.m.raised
        /\ last.m.product = LastRanked[1].product
        /\ last.m.score = LastRanked[1].score

-----------------------------------------------------------------------------
(* SpecRerank: _ai_rerank on its own, with and without chooser credentials,
   over the candidate lists select_best_product builds and every kind of
   chooser reply. *)

NextRerank == CallAiRerank(EntryUniverse, Catalogs, RerankReplies)

SpecRerank == InitMatcher /\ [][NextRerank]_vars

\* the candidates of the call of _ai_rerank last made
LastCandidates == top_ranked(last.entry, last.catalog)

\* C11: for every reply text of the chooser, _ai_rerank raises nothing and
\* returns either one of the candidates with its score or (no product, 0.0).
C11_RerankNeverRaises ==
    (last.op = "_ai_rerank" /\ ~last.rr.raised) =>
        /\ ~last.m.raised
        /\ \/ ~Truthy(last.m.product) /\ last.m.score = 0
           \/ \E i \in 1..Len(LastCandidates) :
                 /\ last.m.product = LastCandidates[i].product
                 /\ last.m.score = LastCandidates[i].score

-----------------------------------------------------------------------------
(* Further claims about the scan (SpecScan) *)

\* the step evaluated the entry the scan was at
Evaluated == AtEntry /\ last'.op = "entry" /\ ~last'.seen /\ last'.entry = ScanEntry

\* article_history after the step holds a 'failed' record of the scan's entry
\* with the reason the step returned
FailedRecordWritten ==
    \E rec \in article_history' :
        /\ rec.brand_name = CurrentBrand
        /\ rec.article_title = ScanEntry.title
        /\ rec.article_url = ScanEntry.url
        /\ rec.status = "failed"
        /\ rec.reason = last'.reason

\* a step whose create_post raised: nothing is raised out of _process_entry,
\* one 'failed' log with the exception text and one 'failed' post_log record
\* are appended, article_history satisfies hist, and the scan of the same
\* brand stands at the next entry
CreatePostFailureStep(hist) ==
    (Evaluated /\ Called("create_post", last'.calls) /\ last'.cp = "raise")
        => /\ ~last'.raised
           /\ ~last'.posted
           /\ last'.reason # <<>>
           /\ Len(logs') = Len(logs) + 1
           /\ logs'[Len(logs')].status = "failed"
           /\ logs'[Len(logs')].reason = last'.reason
           /\ logs'[Len(logs')].article_title = ScanEntry.title
           /\ Len(post_log') = Len(post_log) + 1
           /\ post_log'[Len(post_log')].status = "failed"
           /\ post_log'[Len(post_log')].article_title = ScanEntry.title
           /\ hist
           /\ pc' = "scan"
           /\ bi' = bi
           /\ runs' = runs
           /\ ei' = ei + 1

\* C12: when create_post raises for an entry, no exception leaves
\* _process_entry: the step appends one 'failed' log with the exception text as
\* reason and one 'failed' post_log record, leaves a 'failed' article_history
\* record of the entry with that reason, and the scan of the same brand goes on
\* to the next entry.
C12_CreatePostFailureIsPerEntry == [][CreatePostFailureStep(FailedRecordWritten)]_vars

\* C12 as the code has it: the 'failed' article_history record is written for
\* an entry with a title; for an entry without a title article_history is left
\* as it was, the log and the post_log record being written all the same.
C12_CreatePostFailureTitled ==
    [][CreatePostFailureStep(IF ScanEntry.title # <<>> THEN FailedRecordWritten
                             ELSE article_history' = article_history)]_vars

\* create_post raised for the first of two entries and the scan stands at the
\* second
C12_Witness ==
    /\ pc = "scan"
    /\ last.op = "entry"
    /\ Called("create_post", last.calls)
    /\ last.cp = "raise"
    /\ ei = 2
    /\ Len(entries) = 2
    /\ post_log[Len(post_log)].status = "failed"
    /\ last.entry.title # <<>>
    /\ \E rec \in article_history :
          rec.article_title = last.entry.title /\ rec.status = "failed"



-----------------------------------------------------------------------------
(* The posting preconditions (SpecPrecond): one brand whose platforms and
   workspace ids may be missing, settings whose scheduler key and default
   workspace ids may be missing, catalogs with and without product images *)

PrecondRuns == 1

PrecondSettings ==
    {[Settings("k", postly, 100, FALSE, FALSE) EXCEPT !.postly_workspace_ids = ws] :
        postly \in {"", "p"}, ws \in {"", "w0"}}

PrecondBrands ==
    {<<Brand("X", platforms, ws)>> : platforms \in {"", "instagram"}, ws \in {"", "w1"}}

\* feed entries with and without a title
PrecondEntries == {EntryEye, EntryUntitled}

InitPrecond == InitWith(PrecondSettings, {0})

\* the catalogs load_products_for_brand returns: with and without an image
\* for the matched product
PrecondCatalogs == {CatalogTwo, CatalogNoImage}

\* ingest_rss returns at most two of the entries
PrecondFeeds == Feeds(PrecondEntries, 2)

NextPrecond ==
    \/ RunStart(PrecondBrands, PrecondRuns)
    \/ BrandStep(PrecondCatalogs, PrecondFeeds, NoFault)
    \/ ScanStep(PassHardblock, PassRelevance, OutageOnly, Succeeds, SucceedsOrRaises)
    \/ ScanEnd

SpecPrecond == InitPrecond /\ [][NextPrecond]_vars

\* the reasons of the posting preconditions the matched product, the brand and
\* the settings do not meet
MissingReasons(product, brand) ==
    {r \in {<<"Missing product image URL">>, <<"Missing POSTLY_API_KEY">>,
            <<"Missing target platforms">>, <<"Missing workspace IDs">>} :
        \/ r = <<"Missing product image URL">> /\ product.product_image_url = ""
        \/ r = <<"Missing POSTLY_API_KEY">> /\ SETTINGS.postly_api_key = ""
        \/ r = <<"Missing target platforms">> /\ brand.target_platforms = ""
        \/ r = <<"Missing workspace IDs">>
              /\ brand.workspace_ids = "" /\ SETTINGS.postly_workspace_ids = ""}

\* the step evaluated the entry up to the caption that precedes the checks
CaptionWritten ==
    Evaluated /\ ~last'.raised /\ Called("generate_caption", last'.calls)

\* C13: when a posting precondition is missing for the matched product (empty
\* image URL, no scheduler key, no target platforms, no workspace ids from the
\* brand or the settings), the step makes no create_post request and writes no
\* post_log record, appends one 'failed' log whose reason names a missing
\* precondition (and leaves a 'failed' article_history record with that reason
\* when the entry has a title), and the scan goes on to the next entry.
C13_MissingPreconditionFails ==
    [][(CaptionWritten /\ MissingReasons(last'.m.product, brands[bi]) # {})
        => /\ ~Called("create_post", last'.calls)
           /\ requests' = requests
           /\ post_log' = post_log
           /\ ~last'.posted
           /\ last'.reason \in MissingReasons(last'.m.product, brands[bi])
           /\ Len(logs') = Len(logs) + 1
           /\ logs'[Len(logs')].status = "failed"
           /\ logs'[Len(logs')].reason = last'.reason
           /\ ScanEntry.title # <<>> => FailedRecordWritten
           /\ pc' = "scan"
           /\ bi' = bi
           /\ ei' = ei + 1]_vars

\* the brand and the settings both lack workspace ids, everything else is
\* present: the entry failed on the workspace ids and the scan stands at the
\* second entry
C13_Witness ==
    /\ pc = "scan"
    /\ last.op = "entry"
    /\ last.reason = <<"Missing workspace IDs">>
    /\ brands[bi].workspace_ids = ""
    /\ SETTINGS.postly_workspace_ids = ""
    /\ ei = 2
    /\ Len(entries) = 2
    /\ requests = 0


-----------------------------------------------------------------------------
(* The end of a brand's processing (Spec) *)

\* the scan of the current brand has consumed its entry list without a post
ScanConsumed == pc = "scan" /\ ei > Len(entries)

IsTerminalLog(row) ==
    /\ row.status = "failed"
    /\ Len(row.reason) = 2
    /\ row.reason[1] = "No valid articles found for "

\* the terminal logs written so far
TerminalLogs(l) == {i \in 1..Len(l) : IsTerminalLog(l[i])}

\* C14: when a brand's scan has consumed its whole entry list without a post,
\* the next step appends exactly one 'failed' log 'No valid articles found for
\* <brand>' and ends the brand's processing; no other step writes such a log,
\* and a step that posts or finds the brand ALREADY_SCHEDULED ends the brand's
\* processing, so that no terminal log can follow it.
C14_ExhaustedWritesOneTerminalLog ==
    [][/\ ScanConsumed
            => /\ Len(logs') = Len(logs) + 1
               /\ \A i \in 1..Len(logs) : logs'[i] = logs[i]
               /\ IsTerminalLog(logs'[Len(logs')])
               /\ logs'[Len(logs')].reason[2] = CurrentBrand
               /\ pc' # "scan"
               /\ last'.state = "EXHAUSTED"
       /\ ~ScanConsumed => TerminalLogs(logs') = TerminalLogs(logs)
       /\ (Evaluated /\ last'.posted) => pc' # "scan"
       /\ (IsBrandStep /\ last'.state = "ALREADY_SCHEDULED") => pc' # "scan"]_vars

\* a brand's scan evaluated its only entry, the post failed, and the brand's
\* processing ended with the terminal log
C14_Witness ==
    /\ last.op = "brand"
    /\ last.state = "EXHAUSTED"
    /\ Len(entries) = 1
    /\ Len(logs) >= 2
    /\ IsTerminalLog(logs[Len(logs)])
    /\ ~IsTerminalLog(logs[Len(logs) - 1])
    /\ Cardinality(TerminalLogs(logs)) = 1


-----------------------------------------------------------------------------
(* Runs over a list of brands (SpecBrands): the list may be empty, a catalog
   may be empty, and the loaders, the classifier and the caption writer may
   raise *)

BrandRuns == 2

BrandY == Brand("Y", "instagram", "w2")

BrandLists == {<<>>, <<BrandX, BrandY>>}

InitBrands == InitWith({Settings("k", "p", 100, FALSE, FALSE)}, {0})

\* either loader of a brand's iteration can raise
LoaderFaults == {"none", "catalog", "feed"}

NextBrands ==
    \/ RunStart(BrandLists, BrandRuns)
    \/ BrandStep(EmptyOrFullCatalog, OneEntryFeeds, LoaderFaults)
    \/ ScanStep(PassOrOutage, PassRelevance, OutageOnly, SucceedsOrRaises, SucceedsOrRaises)
    \/ ScanEnd

SpecBrands == InitBrands /\ [][NextBrands]_vars

\* a run is processing a brand that is not the last of the list
BrandsFollow == pc \in {"brand", "scan"} /\ bi < Len(brands)

\* C15: a fault raised while a brand is processed (catalog load, feed ingest,
\* classifier call, caption generation) does not end the run while brands
\* follow in the list: the run is still processing the same or the next brand
\* after the step.
C15_FaultLeavesLaterBrands ==
    [][(BrandsFollow /\ last'.raised)
        => /\ pc' \in {"brand", "scan"}
           /\ bi' \in {bi, bi + 1}
           /\ runs' = runs]_vars


\* a step that starts a run
IsRunStart == pc \in {"idle", "crashed"} /\ runs' = runs + 1

\* a step of the brand loop whose catalog load returned no product
CatalogEmptyStep ==
    IsBrandStep /\ last'.op = "brand" /\ ~last'.raised /\ last'.catalog = <<>>

\* C16: a run started with an empty brand list appends one 'failed' log
\* 'Brands.csv is empty' and is over, with nothing else written; a brand whose
\* catalog is empty gets one 'failed' log 'Product catalog empty for <brand>',
\* no day check, no scan, no post and no record, and the run moves on to the
\* next brand of the list (or is over after the last one).
C16_StructuralInputFaults ==
    [][/\ (IsRunStart /\ brands' = <<>>)
            => /\ Len(logs') = Len(logs) + 1
               /\ \A i \in 1..Len(logs) : logs'[i] = logs[i]
               /\ logs'[Len(logs')].status = "failed"
               /\ logs'[Len(logs')].reason = <<"Brands.csv is empty">>
               /\ pc' = "idle"
               /\ last'.state = "NO_BRANDS"
               /\ UNCHANGED <<post_log, article_history, requests>>
       /\ CatalogEmptyStep
            => /\ Len(logs') = Len(logs) + 1
               /\ \A i \in 1..Len(logs) : logs'[i] = logs[i]
               /\ logs'[Len(logs')].status = "failed"
               /\ logs'[Len(logs')].reason = <<"Product catalog empty for ", CurrentBrand>>
               /\ last'.state = "CATALOG_EMPTY"
               /\ last'.calls = <<>>
               /\ UNCHANGED <<post_log, article_history, requests, scheduled_time,
                              now_local, entries, ei>>
               /\ IF bi < Len(brands)
                  THEN pc' = "brand" /\ bi' = bi + 1
                  ELSE pc' = "idle"]_vars

\* the first of two brands had an empty catalog and the run stands at the
\* second brand
C16_Witness ==
    /\ last.op = "brand"
    /\ last.state = "CATALOG_EMPTY"
    /\ last.brand_name = "X"
    /\ pc = "brand"
    /\ bi = 2
    /\ Len(brands) = 2
    /\ logs[Len(logs)].reason = <<"Product catalog empty for ", "X">>


-----------------------------------------------------------------------------
(* post_log and article_history as stores *)

\* post_log after the step is post_log with n rows appended
Appended(n) ==
    /\ Len(post_log') = Len(post_log) + n
    /\ \A i \in 1..Len(post_log) : post_log'[i] = post_log[i]

\* C17: every step appends to post_log exactly as many records as it makes
\* create_post calls (none or one); the record of a call is of the entry and
\* the brand the call was made for, with status 'posted' or 'scheduled' when
\* the call returned and 'failed' when it raised; a step that evaluates an entry
\* without calling create_post leaves post_log as it was; so post_log always
\* holds one record per call made.
C17_OnePostLogRecordPerCall ==
    /\ [][/\ requests' \in {requests, requests + 1}
          /\ Appended(requests' - requests)
          /\ requests' = requests + 1
                => /\ Evaluated
                   /\ Called("create_post", last'.calls)
                   /\ post_log'[Len(post_log')].brand_name = CurrentBrand
                   /\ post_log'[Len(post_log')].article_title = ScanEntry.title
                   /\ post_log'[Len(post_log')].article_url = ScanEntry.url
                   /\ last'.cp = "ok"
                        => post_log'[Len(post_log')].status \in {"posted", "scheduled"}
                   /\ last'.cp = "raise"
                        => post_log'[Len(post_log')].status = "failed"
          /\ (Evaluated /\ Called("create_post", last'.calls))
                => requests' = requests + 1
          /\ (Evaluated /\ ~Called("create_post", last'.calls))
                => post_log' = post_log]_vars
    /\ [](Len(post_log) = requests)

\* two create_post calls were made, the first raised and the second returned:
\* post_log holds a 'failed' record followed by a 'posted' or 'scheduled' one
C17_Witness ==
    /\ requests = 2
    /\ Len(post_log) = 2
    /\ post_log[1].status = "failed"
    /\ post_log[2].status \in {"posted", "scheduled"}
    /\ last.op = "entry"
    /\ last.cp = "ok"
    /\ Called("create_post", last.calls)


(* Sequences of record_article_check calls (SpecHistory): calls for triples
   that differ in the brand, in the title or in the url, some without a brand
   or without a title, made at different times *)

MaxChecks == 2

\* the (brand, title, url) triples of the calls
CheckTriples ==
    { <<"X", EntryEye.title, "u1">>, <<"X", EntryEye.title, "">>,
      <<"X", EntryGout.title, "u1">>, <<"Y", EntryEye.title, "u1">>,
      <<"", EntryEye.title, "u1">>, <<"X", <<>>, "u1">> }

\* the (status, reason) pairs of the calls
CheckOutcomes == { <<"skipped", <<"No product match">> >>, <<"posted", <<>> >> }

\* one call of record_article_check at the current time
CallRecordArticleCheck(triples, outcomes) ==
    /\ \E k \in triples, o \in outcomes :
        /\ article_history' = record_article_check(article_history, k[1], k[2], k[3],
                                                   o[1], o[2])
        /\ last' = [Obs("record_article_check", k[1], o[1]) EXCEPT
                       !.entry = Entry(k[2], k[3], <<>>), !.reason = o[2]]
    /\ UNCHANGED <<SETTINGS, rotation_state, clock, pc, runs, brands, bi, products, entries, ei,
                   now_local, scheduled_time, last_products, logs, post_log, requests,
                   repeat_skips>>

\* datetime.utcnow() moves on between two calls
TimePasses(maxClock) ==
    /\ clock < maxClock
    /\ clock' = clock + 1
    /\ UNCHANGED <<SETTINGS, rotation_state, pc, runs, brands, bi, products, entries, ei, now_local,
                   scheduled_time, last_products, logs, article_history, post_log,
                   requests, repeat_skips, last>>

InitHistory == InitWith({Settings("k", "p", 100, FALSE, FALSE)}, {0})

NextHistory ==
    \/ CallRecordArticleCheck(CheckTriples, CheckOutcomes)
    \/ TimePasses(MaxChecks)

SpecHistory == InitHistory /\ [][NextHistory]_vars

\* the record is of the triple
OfTriple(rec, brand_name, title, url) ==
    /\ rec.brand_name = brand_name
    /\ rec.article_title = title
    /\ rec.article_url = url

\* the step is a call of record_article_check for the triple last' names
IsCheckCall == last'.op = "record_article_check" /\ clock' = clock

\* C18: article_history never holds two records of the same (brand, title,
\* url); after a call for a triple with a brand and a title the one record of
\* the triple carries the call's status and reason and the time of the call,
\* whether or not the triple had a record before; and every call leaves the
\* records of all other triples exactly as they were.
C18_OneRecordPerTriple ==
    /\ [](\A r1, r2 \in article_history :
            OfTriple(r1, r2.brand_name, r2.article_title, r2.article_url) => r1 = r2)
    /\ [][IsCheckCall =>
            LET b == last'.brand_name
                t == last'.entry.title
                u == last'.entry.url
            IN  /\ \A r \in article_history \cup article_history' :
                      ~OfTriple(r, b, t, u)
                          => (r \in article_history <=> r \in article_history')
                /\ (b # "" /\ t # <<>>)
                      => {r \in article_history' : OfTriple(r, b, t, u)}
                            = {[brand_name |-> b, article_title |-> t, article_url |-> u,
                                checked_at |-> clock, status |-> last'.state,
                                reason |-> last'.reason]}]_vars

\* a triple first recorded as skipped at time 0 was recorded again as posted
\* at time 1: its one record is the later one, next to an older record of
\* another triple
C18_Witness ==
    /\ last.op = "record_article_check"
    /\ last.state = "posted"
    /\ clock = 1
    /\ Cardinality(article_history) = 2
    /\ \E r1, r2 \in article_history :
          /\ OfTriple(r1, last.brand_name, last.entry.title, last.entry.url)
          /\ r1.checked_at = 1
          /\ r1.status = "posted"
          /\ r2.checked_at = 0
          /\ r2.brand_name = r1.brand_name
          /\ r2.article_title = r1.article_title
          /\ r2.article_url # r1.article_url


-----------------------------------------------------------------------------
(* The repeat guard (SpecRepeat): runs of one brand that start from a post_log
   seeded with earlier posts, as test_avoid_repeat_product.py seeds it, with
   the guard enabled and disabled *)

RepeatRuns == 2

\* a 'posted' record of an earlier post of the product
\* (test_avoid_repeat_product.py 42-57)
SeededPost(brand_name, product, t) ==
    [brand_name |-> brand_name, product_name |-> product.product_name,
     article_title |-> <<"s","e","e","d","e","d">>, article_url |-> "seeded",
     image_url |-> product.product_image_url,
     scheduled_time |-> isoformat(t), posted_time |-> isoformat(t), status |-> "posted"]

\* post_log at the start, oldest record first: empty, one earlier post, two,
\* and three of which the oldest lies outside a window of two
SeededLogs ==
    { <<>>,
      <<SeededPost("X", ProductEye, 0)>>,
      <<SeededPost("X", ProductGout, 0)>>,
      <<SeededPost("X", ProductGout, 0), SeededPost("X", ProductEye, 1)>>,
      <<SeededPost("X", ProductEye, 0), SeededPost("X", ProductGout, 1)>>,
      <<SeededPost("X", ProductGout, 0), SeededPost("X", ProductImmune, 1),
        SeededPost("X", ProductEye, 2)>>,
      <<SeededPost("Y", ProductEye, 0), SeededPost("Y", ProductGout, 1)>> }

InitRepeat ==
    /\ SETTINGS \in {Settings("k", "p", 100, FALSE, avoid) : avoid \in BOOLEAN}
    /\ clock = TicksPerDay
    /\ pc = "idle"
    /\ runs = 0
    /\ brands = <<>>
    /\ bi = 0
    /\ products = <<>>
    /\ entries = <<>>
    /\ ei = 0
    /\ now_local = 0
    /\ scheduled_time = 0
    /\ last_products = <<>>
    /\ logs = <<>>
    /\ article_history = {}
    /\ post_log \in SeededLogs
    /\ requests = Len(post_log)
    /\ repeat_skips = {}
    /\ rotation_state = NoRotation
    /\ last = Obs("none", "", "")

\* ingest_rss returns at most two of the three entries
RepeatFeeds == Feeds({EntryEye, EntryGout, EntryUntitled}, 2)

NextRepeat ==
    \/ RunStart(OneBrand, RepeatRuns)
    \/ BrandStep(FullCatalog, RepeatFeeds, NoFault)
    \/ ScanStep(PassHardblock, PassRelevance, OutageOnly, Succeeds, SucceedsOrRaises)
    \/ ScanEnd

SpecRepeat == InitRepeat /\ [][NextRepeat]_vars

\* the names of the brand's last K posted products, K the configured count
RepeatWindow ==
    LET names == get_last_products(CurrentBrand, SETTINGS.avoid_repeat_product_count)
    IN  {names[i] : i \in 1..Len(names)}

\* the step evaluated the scan's entry and select_best_product returned a
\* product for it
Matched ==
    /\ Evaluated
    /\ ~last'.raised
    /\ Called("select_best_product", last'.calls)
    /\ Truthy(last'.m.product)

\* C19: with the guard enabled, an entry whose matched product is named in the
\* brand's last K posted product names is not posted: the step makes no
\* create_post request, appends no post_log record and the scan of the same
\* brand goes on to the next entry; an entry whose matched product is not in
\* the window, or any matched entry with the guard disabled, is not rejected by
\* the guard and goes on to caption generation.
C19_RepeatGuard ==
    [][/\ (Matched /\ SETTINGS.avoid_repeat_product
                   /\ last'.m.product.product_name \in RepeatWindow)
            => /\ last'.reason = <<"repeat_product">>
               /\ ~last'.posted
               /\ ~Called("generate_caption", last'.calls)
               /\ ~Called("create_post", last'.calls)
               /\ requests' = requests
               /\ post_log' = post_log
               /\ pc' = "scan"
               /\ bi' = bi
               /\ ei' = ei + 1
       /\ (Matched /\ ~(SETTINGS.avoid_repeat_product
                        /\ last'.m.product.product_name \in RepeatWindow))
            => /\ last'.reason # <<"repeat_product">>
               /\ Called("generate_caption", last'.calls)]_vars

\* the first entry matched the older of the two products of the window and was
\* passed over; the scan stands at the second entry with nothing posted
C19_Witness ==
    /\ pc = "scan"
    /\ last.op = "entry"
    /\ last.reason = <<"repeat_product">>
    /\ Len(last_products) = 2
    /\ last.m.product.product_name = last_products[2]
    /\ last.m.product.product_name # last_products[1]
    /\ ei = 2
    /\ Len(entries) = 2
    /\ requests = Len(post_log)
    /\ Len(post_log) = 2


-----------------------------------------------------------------------------
(* Durable records of outcomes (SpecScan) *)

\* the step wrote a record to one of the stores
RecordWritten ==
    \/ Len(logs') > Len(logs)
    \/ Len(post_log') > Len(post_log)
    \/ article_history' # article_history

\* the step appended a log of the scan's entry with one of the four statuses
OutcomeLogged ==
    /\ Len(logs') = Len(logs) + 1
    /\ logs'[Len(logs')].article_title = ScanEntry.title
    /\ logs'[Len(logs')].article_url = ScanEntry.url
    /\ logs'[Len(logs')].status \in {"skipped", "failed", "posted", "scheduled"}

\* the step ends the processing of the current brand
BrandEnds == pc \in {"brand", "scan"} /\ (pc' \notin {"brand", "scan"} \/ bi' # bi)

\* C20: every step that evaluates an entry appends a log of that entry with
\* status skipped, failed, posted or scheduled, and every step that ends the
\* processing of a brand writes a record.
C20_NoSilentOutcome ==
    [][/\ Evaluated => OutcomeLogged
       /\ BrandEnds => RecordWritten]_vars


-----------------------------------------------------------------------------
(* The three gates of safety_filter (SpecSafety) *)

\* the text of the reply after its first 'score=' up to the next ';', trimmed
ScoreText(reply) ==
    Strip(SplitFirst(SplitSecond(Lower(Strip(reply.content)),
                                 <<"s","c","o","r","e","=">>), <<";">>))

\* the reply carries a score that parses as a number
ScoreParses(reply) ==
    /\ Contains(<<"s","c","o","r","e","=">>, Lower(Strip(reply.content)))
    /\ ParseFloat(ScoreText(reply)).ok

\* the score the reply counts for, in hundredths
ReplyScore(reply) == IF ScoreParses(reply) THEN ParseFloat(ScoreText(reply)).val ELSE 0

\* C21: safety_filter returns allowed = true only when the text holds no
\* blocked topic, the hard-block classifier was called first and its reply does
\* not start with HARDBLOCK=yes, and the relevance classifier was called next
\* and its reply starts with RELATED=yes and carries a score at or above the
\* relevance threshold; a relevance reply whose score does not parse raises
\* nothing and counts as score 0, which rejects the entry.
C21_AllowedOnlyThroughThreeGates ==
    /\ (last.op = "safety_filter" /\ last.sf.ok)
          => /\ ~last.sf.raised
             /\ TopicsIn(LastText) = {}
             /\ last.sf.calls = <<"ai_hardblock_check", "ai_product_relevance_check">>
             /\ ~last.hb.raised
             /\ ~StartsWith(Lower(Strip(last.hb.content)),
                            <<"h","a","r","d","b","l","o","c","k","=","y","e","s">>)
             /\ ~last.rel.raised
             /\ StartsWith(Lower(Strip(last.rel.content)),
                           <<"r","e","l","a","t","e","d","=","y","e","s">>)
             /\ ReplyScore(last.rel) >= SETTINGS.relevance_threshold
    /\ (/\ last.op = "safety_filter"
        /\ Called("ai_product_relevance_check", last.sf.calls)
        /\ ~last.rel.raised
        /\ ~ScoreParses(last.rel))
          => /\ ~last.sf.raised
             /\ ~last.sf.ok
             /\ last.sf.reason = Strip(last.rel.content)

\* an entry without a blocked topic passed with a relevance score equal to the
\* threshold
C21_Witness ==
    /\ last.op = "safety_filter"
    /\ last.sf.ok
    /\ last.entry = EntryEye
    /\ last.hb = HardblockNo
    /\ ReplyScore(last.rel) = SETTINGS.relevance_threshold


-----------------------------------------------------------------------------
(* score_product as a function (SpecScore): every entry of the universe
   against products with tokens in one field, in several fields, and in none *)

\* a product without any text
ProductBlank == Product(<<>>, <<>>, <<>>, <<>>, <<>>, "img4")

\* a product whose only words are noise tokens or shorter than three letters
ProductNoise ==
    Product(<<"H","e","a","l","t","h">>, <<>>, <<"D","a","i","l","y"," ","s","u","p","p","o","r","t">>,
            <<"C"," ","B","1","2">>, <<>>, "img5")

ScoreProducts == {ProductEye, ProductGout, ProductImmune, ProductBlank, ProductNoise}

ScoreObs(entry, product, score) ==
    [Obs("score_product", "", "") EXCEPT
        !.entry = entry, !.catalog = <<product>>,
        !.m = [product |-> product, score |-> score, raised |-> FALSE, calls |-> <<>>]]

CallScoreProduct(entrySet, productSet) ==
    /\ last.op = "none"
    /\ \E entry \in entrySet, product \in productSet :
          last' = ScoreObs(entry, product, score_product(entry, product))
    /\ UNCHANGED <<SETTINGS, rotation_state, clock, pc, runs, brands, bi, products, entries, ei, now_local,
                   scheduled_time, last_products, logs, article_history, post_log,
                   requests, repeat_skips>>

NextScore == CallScoreProduct(EntryUniverse, ScoreProducts)

SpecScore == InitMatcher /\ [][NextScore]_vars

\* the fields of the product in which the token occurs
FieldsWith(product, t) ==
    {k \in 1..Len(FieldOrder) : t \in _tokenize(product[FieldOrder[k]])}

\* the tokens of the product, over all its weighted fields
ProductTokens(product) ==
    UNION {_tokenize(product[FieldOrder[k]]) : k \in 1..Len(FieldOrder)}

\* the largest weight among the fields the token occurs in, in tenths
LargestWeight(product, t) ==
    LET ws == {FIELD_WEIGHTS[FieldOrder[k]] : k \in FieldsWith(product, t)}
    IN  CHOOSE w \in ws : \A v \in ws : w >= v

RECURSIVE SumLargest(_, _)
SumLargest(product, S) ==
    IF S = {} THEN 0
    ELSE LET t == CHOOSE x \in S : TRUE
         IN  LargestWeight(product, t) + SumLargest(product, S \ {t})

\* C22: score_product returns exactly 0 when the entry has no token or the
\* product has no token in any weighted field; otherwise the score is the sum,
\* over the entry's tokens that occur in the product, of the largest weight
\* among the fields the token occurs in (not the sum of those fields'
\* weights), divided by (number of entry tokens) ** 0.7.
C22_ScoreZeroAndMaxWeight ==
    last.op = "score_product" =>
        LET toks == _tokenize(Combined(last.entry))
            product == last.m.product
            ptoks == ProductTokens(product)
        IN  /\ (toks = {} \/ ptoks = {}) => last.m.score = 0
            /\ (toks # {} /\ ptoks # {})
                  => last.m.score =
                        (SumLargest(product, toks \cap ptoks) * 100000)
                            \div Pow07[Cardinality(toks)]

\* 'eye' occurs in the name (3.0) and the category (2.0) of the product and
\* counts 3.0, not 5.0: with the entry's two tokens the score is
\* (3.0 + 1.0) / 2 ** 0.7
C22_Witness ==
    /\ last.op = "score_product"
    /\ last.entry = EntryEye
    /\ last.m.product = ProductEye
    /\ Cardinality(FieldsWith(ProductEye, <<"e","y","e">>)) = 2
    /\ last.m.score = (40 * 100000) \div Pow07[2]


-----------------------------------------------------------------------------
(* ingest_rss as a function (SpecIngest): raw feeds with repeated keys (titles
   that differ in case and surrounding blanks, urls that differ in surrounding
   blanks) and with and without publish timestamps *)

MaxFeed == 3

\* an entry as fetch_rss_entries builds it; published is <<t>> or NULL
RawEntry(title, url, published) ==
    [source |-> "feed", title |-> title, url |-> url, summary |-> <<>>,
     published |-> published]

RawEntries ==
    { RawEntry(<<"E","y","e">>, <<"u">>, <<2>>),
      RawEntry(<<" ","E","Y","E"," ">>, <<"u"," ">>, <<1>>),
      RawEntry(<<"G","o","u","t">>, <<"u">>, NULL),
      RawEntry(<<"E","y","e">>, <<"v">>, <<1>>),
      RawEntry(<<"G","o","u","t">>, <<"u">>, <<2>>) }

\* datetime.min, before every publish time
DatetimeMin == -1

\* the key of dedupe_entries (rss_ingest.py 34)
dedupe_key(entry) == <<Lower(Strip(entry.title)), Strip(entry.url)>>

RECURSIVE dedupe_entries_keep_last(_)
dedupe_entries_keep_last(es) ==
    IF es = <<>> THEN <<>>
    ELSE LET rest == SubSeq(es, 2, Len(es))
         IN  IF \E i \in 1..Len(rest) : dedupe_key(rest[i]) = dedupe_key(es[1])
             THEN dedupe_entries_keep_last(rest)
             ELSE <<es[1]>> \o dedupe_entries_keep_last(rest)

\* the entries whose key was not seen at an earlier position, in their order
RECURSIVE dedupe_entries(_)
dedupe_entries(es) ==
    IF es = <<>> THEN <<>>
    ELSE LET front == SubSeq(es, 1, Len(es) - 1)
             e == es[Len(es)]
         IN  IF \E i \in 1..Len(front) : dedupe_key(front[i]) = dedupe_key(e)
             THEN dedupe_entries(front)
             ELSE Append(dedupe_entries(front), e)

\* sorted(entries, key=published or datetime.min, reverse=True)
sort_entries_newest(es) ==
    LET keyed == [i \in 1..Len(es) |->
                    [entry |-> es[i],
                     score |-> IF es[i].published = NULL THEN DatetimeMin
                               ELSE es[i].published[1]]]
        sorted == SortedDesc(keyed)
    IN  [i \in 1..Len(sorted) |-> sorted[i].entry]

ingest_rss(raw) == sort_entries_newest(dedupe_entries(raw))

\* one call of ingest_rss on what the feeds return
CallIngestRss(rawFeeds) ==
    /\ last.op = "none"
    /\ \E raw \in rawFeeds :
          /\ entries' = ingest_rss(raw)
          /\ last' = [op |-> "ingest_rss", raw |-> raw]
    /\ UNCHANGED <<SETTINGS, rotation_state, clock, pc, runs, brands, bi, products, ei, now_local,
                   scheduled_time, last_products, logs, article_history, post_log,
                   requests, repeat_skips>>

RawFeeds == UNION {[1..k -> RawEntries] : k \in 0..MaxFeed}

InitIngest == InitWith({Settings("k", "p", 100, FALSE, FALSE)}, {0})

NextIngest == CallIngestRss(RawFeeds)

SpecIngest == InitIngest /\ [][NextIngest]_vars

\* the (trimmed lower-cased title, trimmed url) of an entry
KeyOf(e) == <<Lower(Strip(e.title)), Strip(e.url)>>

\* entry a does not sort after entry b: a has a timestamp not older than b's,
\* or b has none
NotOlder(a, b) ==
    \/ b.published = NULL
    \/ a.published # NULL /\ a.published[1] >= b.published[1]

\* C23: ingest_rss returns a list in which no two entries share the (trimmed
\* lower-cased title, trimmed url) key, every entry is the first occurrence of
\* its key in the fetched list, every fetched key is present, and the order is
\* newest first with the entries without a publish timestamp after all those
\* that have one.
C23_DedupedNewestFirst ==
    last.op = "ingest_rss" =>
        /\ \A i, j \in 1..Len(entries) : KeyOf(entries[i]) = KeyOf(entries[j]) => i = j
        /\ \A i \in 1..Len(entries) :
              \E j \in 1..Len(last.raw) :
                  /\ last.raw[j] = entries[i]
                  /\ \A k \in 1..(j - 1) : KeyOf(last.raw[k]) # KeyOf(entries[i])
        /\ \A j \in 1..Len(last.raw) :
              \E i \in 1..Len(entries) : KeyOf(entries[i]) = KeyOf(last.raw[j])
        /\ \A i, j \in 1..Len(entries) : i < j => NotOlder(entries[i], entries[j])

\* the feed gave an entry without a timestamp first, then an entry and a later
\* copy of it under another spelling: the copy is dropped and the entry without
\* a timestamp comes last
C23_Witness ==
    /\ last.op = "ingest_rss"
    /\ Len(last.raw) = 3
    /\ last.raw[1].published = NULL
    /\ last.raw[2] # last.raw[3]
    /\ KeyOf(last.raw[2]) = KeyOf(last.raw[3])
    /\ entries = <<last.raw[2], last.raw[1]>>


(***************************************************************************)
(* pipeline/caption_writer.py: generate_caption                            *)
(***************************************************************************)

\* the longest text the caption model returns, in words
MaxModelWords == 160

\* text.split() for long texts: the words of Words(s), found by splitting at the
\* whitespace nearest the middle, so that a caption of 160 words nests shallowly
RECURSIVE SplitWords(_)
SplitWords(s) ==
    LET t == Strip(s)
        sp == {i \in 1..Len(t) : IsSpace(t[i])}
        mid == (Len(t) + 1) \div 2
        Dist(i) == IF i >= mid THEN i - mid ELSE mid - i
        cut == CHOOSE i \in sp : \A j \in sp : Dist(i) <= Dist(j)
    IN  IF t = <<>> THEN <<>>
        ELSE IF sp = {} THEN <<t>>
        ELSE SplitWords(SubSeq(t, 1, cut - 1)) \o SplitWords(SubSeq(t, cut + 1, Len(t)))

\* _count_words(text): len(text.split())
_count_words(text) == Len(SplitWords(text))

\* "".join(ws)
RECURSIVE JoinNoSpace(_)
JoinNoSpace(ws) == IF ws = <<>> THEN <<>> ELSE Head(ws) \o JoinNoSpace(Tail(ws))

\* " ".join(ws)
\* (joined by halves, so that long texts nest shallowly)
RECURSIVE JoinWords(_)
JoinWords(ws) ==
    IF ws = <<>> THEN <<>>
    ELSE IF Len(ws) = 1 THEN ws[1]
    ELSE JoinWords(SubSeq(ws, 1, Len(ws) \div 2)) \o <<" ">>
         \o JoinWords(SubSeq(ws, Len(ws) \div 2 + 1, Len(ws)))


\* s.split(pat), as a sequence of pieces
RECURSIVE SplitAll(_, _)
SplitAll(s, pat) ==
    LET p == Find(pat, s, 1)
    IN  IF p = 0 THEN <<s>>
        ELSE <<SubSeq(s, 1, p - 1)>> \o SplitAll(SubSeq(s, p + Len(pat), Len(s)), pat)

\* "#" + "".join(tag.split())
HashTag(tag) == <<"#">> \o JoinNoSpace(Words(tag))

\* the hashtags of the cleaned, non-empty pieces of brand_tags
RECURSIVE BrandTags(_)
BrandTags(pieces) ==
    IF pieces = <<>> THEN <<>>
    ELSE (IF Strip(Head(pieces)) # <<>> THEN <<HashTag(Strip(Head(pieces)))>> ELSE <<>>)
         \o BrandTags(Tail(pieces))

\* extra_tags: brand tag, product tag, then the brand's own tags
ExtraTags(entry, product) ==
    LET brand_tag == Strip(entry.brand_name)
        product_tag == Strip(product.product_name)
        brand_tags_raw == Strip(entry.brand_tags)
    IN  (IF brand_tag # <<>> THEN <<HashTag(brand_tag)>> ELSE <<>>)
        \o (IF product_tag # <<>> THEN <<HashTag(product_tag)>> ELSE <<>>)
        \o (IF brand_tags_raw # <<>> THEN BrandTags(SplitAll(brand_tags_raw, <<"|">>))
            ELSE <<>>)

\* each tag the caption does not contain (case-insensitively) is appended
RECURSIVE AppendTags(_, _)
AppendTags(caption, tags) ==
    IF tags = <<>> THEN caption
    ELSE AppendTags(IF ~Contains(Lower(Head(tags)), Lower(caption))
                    THEN Strip(caption \o <<" ">> \o Head(tags))
                    ELSE caption,
                    Tail(tags))

\* " This content is shared for educational purposes only."
Disclaimer ==
    <<" ","T","h","i","s"," ","c","o","n","t","e","n","t"," ","i","s"," ",
      "s","h","a","r","e","d"," ","f","o","r"," ",
      "e","d","u","c","a","t","i","o","n","a","l"," ",
      "p","u","r","p","o","s","e","s"," ","o","n","l","y",".">>

\* the word count enforcement at the end of generate_caption
EnforceLength(caption, word_count) ==
    IF word_count < SETTINGS.caption_min_words THEN caption \o Disclaimer
    ELSE IF word_count > SETTINGS.caption_max_words
         THEN JoinWords(SubSeq(SplitWords(caption), 1, SETTINGS.caption_max_words))
         ELSE caption

\* generate_caption(entry, product), given the caption model's reply
generate_caption(entry, product, resp) ==
    IF resp.raised THEN [raised |-> TRUE, caption |-> <<>>]
    ELSE [raised |-> FALSE,
          caption |-> EnforceLength(
                          AppendTags(Strip(resp.content), ExtraTags(entry, product)),
                          _count_words(AppendTags(Strip(resp.content),
                                                  ExtraTags(entry, product))))]

\* a model text of n words; tagged texts already end with the brand's hashtag
ModelText(n, tagged) ==
    JoinWords([i \in 1..n |-> IF tagged /\ i = n THEN <<"#","X">> ELSE <<"w">>])

CaptionReplies ==
    {Reply(ModelText(n, tagged)) : n \in 0..MaxModelWords, tagged \in BOOLEAN}
        \cup {Outage}

\* the entry as _process_entry enriches it with the brand's name and tags
CaptionEntry(brand_name, brand_tags) ==
    [title |-> <<"E","y","e">>, brand_name |-> brand_name, brand_tags |-> brand_tags]

CaptionEntries ==
    {CaptionEntry(<<"X">>, <<>>),
     CaptionEntry(<<"X">>, <<"e","y","e"," ","c","a","r","e","|"," ","|","h","e","r","b">>)}

CallGenerateCaption(captionEntries, captionProducts, replies) ==
    /\ last.op = "none"
    /\ \E entry \in captionEntries, product \in captionProducts, resp \in replies :
          last' = [op |-> "generate_caption", entry |-> entry, product |-> product,
                   resp |-> resp, result |-> generate_caption(entry, product, resp)]
    /\ UNCHANGED <<SETTINGS, rotation_state, clock, pc, runs, brands, bi, products, entries, ei,
                   now_local, scheduled_time, last_products, logs, article_history,
                   post_log, requests, repeat_skips>>

InitCaption == InitWith({Settings("k", "p", 100, FALSE, FALSE)}, {0})

\* the matched products: with and without a name and benefits for the hashtags
CaptionProducts == {ProductEye, ProductBlank}

NextCaption == CallGenerateCaption(CaptionEntries, CaptionProducts, CaptionReplies)

SpecCaption == InitCaption /\ [][NextCaption]_vars

\* C24: for every text the caption model produces, the caption generate_caption
\* returns has between caption_min_words and caption_max_words words.
C24_CaptionWithinBounds ==
    (last.op = "generate_caption" /\ ~last.result.raised)
        => /\ _count_words(last.result.caption) >= SETTINGS.caption_min_words
           /\ _count_words(last.result.caption) <= SETTINGS.caption_max_words


\* the evaluation made by this step reached create_post and the call returned
CreatePostReturned == Evaluated /\ Called("create_post", last'.calls) /\ last'.cp = "ok"

\* C25: within one brand's scan the entries are evaluated in list order (the
\* entry evaluated is the one at the scan position, which then moves on by
\* one), and the scan stops at the first entry whose evaluation reaches
\* create_post and sees it return: that entry is the one recorded as posted or
\* scheduled, the scan position stays on it, the brand is left, and an
\* evaluation that does not end so (and does not raise) moves to the next entry.
C25_ScanStopsAtFirstPostedEntry ==
    [][/\ (AtEntry /\ clock' = clock)
            => /\ last'.op = "entry"
               /\ last'.entry = ScanEntry
               /\ entries' = entries
       /\ (pc = "scan" /\ pc' = "scan") => (bi' = bi /\ ei' \in {ei, ei + 1})
       /\ CreatePostReturned
            => /\ last'.posted
               /\ last'.state = "SCHEDULED"
               /\ pc' # "scan"
               /\ bi' # bi
               /\ ei' = ei
               /\ Appended(1)
               /\ post_log'[Len(post_log')].article_title = ScanEntry.title
               /\ post_log'[Len(post_log')].status \in {"posted", "scheduled"}
       /\ (AtEntry /\ clock' = clock /\ ~CreatePostReturned /\ ~last'.raised)
            => /\ ~last'.posted
               /\ pc' = "scan"
               /\ ei' = ei + 1
               /\ \A i \in 1..Len(post_log') :
                      i > Len(post_log) => post_log'[i].status = "failed"]_vars

C25_Witness ==
    /\ last.op = "entry"
    /\ last.posted
    /\ last.state = "SCHEDULED"
    /\ pc # "scan"
    /\ Len(entries) = 2
    /\ ei = 1
    /\ last.entry = entries[1]
    /\ post_log[Len(post_log)].article_title = entries[1].title


(***************************************************************************)
(* run_daily over two brands with feeds of up to MaxEntries entries, the   *)
(* interpreter carrying a started run on to its end                        *)
(***************************************************************************)

TerminationRuns == 1    \* run_daily invocations of a behaviour of SpecRun

InitRun == InitWith({Settings("k", "p", 100, FALSE, FALSE)}, {0})

\* the feed <<EntryEye, EntryGout>>, cut to its first entries
RunFeeds ==
    {f \in Feeds({EntryEye, EntryGout}, MaxEntries) :
        \A i \in 1..Len(f) : f[i] = <<EntryEye, EntryGout>>[i]}

\* load_brands_from_csv returns two brands; ingest_rss can raise
TwoBrands == {<<BrandX, BrandY>>}

FeedFaults == {"none", "feed"}

Raises == {"raise"}

RunBrandStep == BrandStep(EmptyOrFullCatalog, RunFeeds, FeedFaults)

\* the evaluation of the entry at the scan position whose first external call
\* raises: it is enabled exactly when ScanStep is
ScanStepRaises == ScanStep(OutageOnly, OutageOnly, OutageOnly, Raises, Raises)

NextRun ==
    \/ RunStart(TwoBrands, TerminationRuns)
    \/ RunBrandStep
    \/ ScanStep(PassOrOutage, PassRelevance, OutageOnly, Succeeds, SucceedsOrRaises)
    \/ ScanEnd

\* Every external call returns or raises, so the interpreter does not stop
\* inside a started run: a brand's set-up, the evaluation at the scan position
\* and the end of a scan each take place once they can.
RunFairness == WF_vars(RunBrandStep \/ ScanStepRaises \/ ScanEnd)


SpecRun == InitRun /\ [][NextRun]_vars /\ RunFairness


\* run_daily is between its first brand and its return (or its exception)
RunActive == pc \in {"brand", "scan"}

\* the step moves to a later brand, from a brand's set-up to its scan, or to
\* the next entry of the scan, or it ends the run
RunAdvances ==
    \/ pc' \in {"idle", "crashed"}
    \/ bi' = bi + 1 /\ pc' = "brand"
    \/ bi' = bi /\ pc = "brand" /\ pc' = "scan" /\ ei' = 1
    \/ bi' = bi /\ pc = "scan" /\ pc' = "scan" /\ ei' = ei + 1 /\ entries' = entries

\* number of calls of name among calls
CallCount(name, calls) == Cardinality({i \in 1..Len(calls) : calls[i] = name})

\* C26: a run terminates and never retries. Every step of a started run
\* advances it (a later brand, the brand's scan, the next entry, or the end),
\* over brand and entry lists that stay as loaded, so each brand is visited
\* once and each entry evaluated at most once; one evaluation calls each
\* external service at most once (create_post included), and an evaluation
\* that did not post is never repeated: the scan moves on or the run ends.
\* A started run always ends.
C26_RunTerminatesWithoutRetry ==
    /\ [][/\ RunActive
              => /\ RunAdvances
                 /\ brands' = brands
                 /\ runs' = runs
                 /\ bi \in 1..Len(brands)
                 /\ pc = "scan" => ei \in 1..(Len(entries) + 1)
          /\ Evaluated
              => /\ \A name \in {"ai_hardblock_check", "ai_product_relevance_check",
                                 "select_best_product", "generate_caption", "create_post"} :
                        CallCount(name, last'.calls) <= 1
                 /\ requests' = requests + CallCount("create_post", last'.calls)
                 /\ ~last'.posted => (pc' = "crashed" \/ ei' = ei + 1)]_vars
    /\ (RunActive ~> ~RunActive)

C26_Witness ==
    /\ pc = "idle"
    /\ runs = 1
    /\ bi = 0
    /\ last.op = "brand"
    /\ last.state = "EXHAUSTED"
    /\ last.brand_name = "Y"
    /\ Len(entries) = 2
    /\ ei = 3
    /\ requests >= 2
    /\ \E i \in 1..Len(post_log) : post_log[i].status = "failed"


\* the post_log records of brand_name with status 'posted' or 'scheduled'
\* whose scheduled_time lies in local day d
PostsForDay(brand_name, d) ==
    {i \in 1..Len(post_log) :
        /\ post_log[i].brand_name = brand_name
        /\ post_log[i].status \in {"posted", "scheduled"}
        /\ post_log[i].scheduled_time[1] = d}

\* C27: for every brand and every local day, post_log holds at most one record
\* with status 'posted' or 'scheduled' whose scheduled_time lies in that day.
C27_OnePostPerBrandPerDay ==
    \A i \in 1..Len(post_log) :
        Cardinality(PostsForDay(post_log[i].brand_name, post_log[i].scheduled_time[1])) <= 1



(***************************************************************************)
(* run_daily where every check before create_post can fail: safety gates,  *)
(* repeat window (seeded post_log), image, API key, platforms, workspaces   *)
(***************************************************************************)

GateSettings ==
    {Settings("k", postly, 100, FALSE, avoid) : postly \in {"", "p"}, avoid \in BOOLEAN}

InitGates ==
    /\ SETTINGS \in GateSettings
    /\ clock = TicksPerDay
    /\ pc = "idle"
    /\ runs = 0
    /\ brands = <<>>
    /\ bi = 0
    /\ products = <<>>
    /\ entries = <<>>
    /\ ei = 0
    /\ now_local = 0
    /\ scheduled_time = 0
    /\ last_products = <<>>
    /\ logs = <<>>
    /\ article_history = {}
    /\ post_log \in {<<>>, <<SeededPost("X", ProductEye, 0)>>}
    /\ requests = Len(post_log)
    /\ repeat_skips = {}
    /\ rotation_state = NoRotation
    /\ last = Obs("none", "", "")

\* the catalogs load_products_for_brand returns in SpecGates: with and without
\* an image for the matched product
GateCatalogs == PrecondCatalogs

\* the feeds ingest_rss returns in SpecGates: at most one entry, matching the
\* product of the seeded post or the other one
GateFeeds == Feeds({EntryEye, EntryUntitled}, 1)

\* the replies of the hard-block classifier and of the relevance gate in SpecGates
GateHardblocks == {HardblockNo, HardblockYes}

GateRelevances == PassOrMalformed

NextGates ==
    \/ RunStart(PrecondBrands, PrecondRuns)
    \/ BrandStep(GateCatalogs, GateFeeds, NoFault)
    \/ ScanStep(GateHardblocks, GateRelevances, OutageOnly, Succeeds, SucceedsOrRaises)
    \/ ScanEnd

SpecGates == InitGates /\ [][NextGates]_vars

\* the brand records of the run named as the last observation's brand
LastBrands == {brands[i] : i \in {j \in 1..Len(brands) : brands[j].brand_name = last.brand_name}}

\* C28: every create_post call is for an entry that, in the same evaluation
\* and before the call, passed the keyword gate, the hard-block classifier
\* and the relevance gate, was matched to a catalog product with a score of at
\* least the product match threshold, was not a product of the repeat window,
\* got its caption, and has a non-empty image URL, API key, target platforms
\* and workspace ids.
C28_CreatePostOnlyAfterAllChecks ==
    (last.op = "entry" /\ Called("create_post", last.calls))
        => /\ ~last.seen
           /\ Len(last.calls) >= 5
           /\ SubSeq(last.calls, 1, 3) = <<"ai_hardblock_check", "ai_product_relevance_check",
                                           "select_best_product">>
           /\ SubSeq(last.calls, Len(last.calls) - 1, Len(last.calls))
                  = <<"generate_caption", "create_post">>
           /\ TopicsIn(LastText) = {}
           /\ ~last.hb.raised
           /\ ~StartsWith(Lower(Strip(last.hb.content)),
                          <<"h","a","r","d","b","l","o","c","k","=","y","e","s">>)
           /\ ~last.rel.raised
           /\ StartsWith(Lower(Strip(last.rel.content)),
                         <<"r","e","l","a","t","e","d","=","y","e","s">>)
           /\ ReplyScore(last.rel) >= SETTINGS.relevance_threshold
           /\ Truthy(last.m.product)
           /\ \E i \in 1..Len(last.catalog) : last.catalog[i] = last.m.product
           /\ last.m.score >= SETTINGS.product_match_threshold
           /\ SETTINGS.avoid_repeat_product
                => \A i \in 1..Len(last_products) :
                       last_products[i] # last.m.product.product_name
           /\ last.cap = "ok"
           /\ last.m.product.product_image_url # ""
           /\ SETTINGS.postly_api_key # ""
           /\ LastBrands # {}
           /\ \A brand \in LastBrands :
                  /\ brand.target_platforms # ""
                  /\ brand.workspace_ids # "" \/ SETTINGS.postly_workspace_ids # ""

C28_Witness ==
    /\ last.op = "entry"
    /\ Called("create_post", last.calls)
    /\ last.cp = "ok"
    /\ last.posted
    /\ SETTINGS.avoid_repeat_product
    /\ last_products = <<ProductEye.product_name>>
    /\ last.m.product = ProductGout
    /\ \A brand \in LastBrands : brand.workspace_ids # ""


\* the post_log record this step wrote
WrittenRow == post_log'[Len(post_log')]

\* C29 as stated: every post_log record _process_entry writes has
\* scheduled_time at or after the run's now_local; its status is 'posted'
\* exactly when scheduled_time equals now_local, and then posted_time equals
\* now_local; 'scheduled' and 'failed' records have a null posted_time.
C29_PostedExactlyWhenDue ==
    [][(Evaluated /\ Appended(1))
        => /\ WrittenRow.scheduled_time = isoformat(scheduled_time)
           /\ scheduled_time >= now_local
           /\ WrittenRow.status = "posted" <=> scheduled_time = now_local
           /\ WrittenRow.status = "posted" => WrittenRow.posted_time = isoformat(now_local)
           /\ WrittenRow.status \in {"scheduled", "failed"} => WrittenRow.posted_time = NULL]_vars

\* C29, amended: the status is 'posted' exactly when scheduled_time equals
\* now_local and create_post returned; a record whose create_post call raised
\* is 'failed' whatever its scheduled_time, and 'scheduled' is the status of a
\* returned call for a later scheduled_time.
C29_PostedWhenDueAndSent ==
    [][(Evaluated /\ Appended(1))
        => /\ WrittenRow.scheduled_time = isoformat(scheduled_time)
           /\ scheduled_time >= now_local
           /\ WrittenRow.status \in {"posted", "scheduled", "failed"}
           /\ WrittenRow.status = "posted"
                <=> (scheduled_time = now_local /\ last'.cp = "ok")
           /\ WrittenRow.status = "scheduled"
                <=> (scheduled_time > now_local /\ last'.cp = "ok")
           /\ WrittenRow.status = "failed" <=> last'.cp = "raise"
           /\ WrittenRow.status = "posted" => WrittenRow.posted_time = isoformat(now_local)
           /\ WrittenRow.status \in {"scheduled", "failed"} => WrittenRow.posted_time = NULL]_vars

C29_Witness ==
    /\ last.op = "entry"
    /\ Len(post_log) >= 3
    /\ post_log[Len(post_log)].status = "failed"
    /\ post_log[Len(post_log)].scheduled_time = isoformat(now_local)
    /\ post_log[Len(post_log)].posted_time = NULL
    /\ \E i \in 1..Len(post_log) :
          /\ post_log[i].status = "posted"
          /\ post_log[i].posted_time = post_log[i].scheduled_time
    /\ \E i \in 1..Len(post_log) :
          /\ post_log[i].status = "scheduled"
          /\ post_log[i].posted_time = NULL


(***************************************************************************)
(* services/apherb_catalog.py: _resolve_dropbox_image                      *)
(***************************************************************************)

\* the characters of file names, in code point order
CodePoints ==
    <<".","A","B","C","D","E","F","G","H","I","J","K","L","M","N","O","P","Q","R","S","T",
      "U","V","W","X","Y","Z","a","b","c","d","e","f","g","h","i","j","k","l","m","n","o",
      "p","q","r","s","t","u","v","w","x","y","z">>

Ord(c) == CHOOSE i \in 1..Len(CodePoints) : CodePoints[i] = c

\* a < b for Python strings
StrLess(a, b) ==
    \E k \in 1..(Len(a) + 1) :
        /\ k <= Len(b)
        /\ \A i \in 1..(k - 1) : a[i] = b[i]
        /\ k > Len(a) \/ Ord(a[k]) < Ord(b[k])

\* s.endswith(suffix)
EndsWith(s, suffix) ==
    Len(suffix) <= Len(s) /\ SubSeq(s, Len(s) - Len(suffix) + 1, Len(s)) = suffix

_is_image_file(name) ==
    \E suffix \in {<<".","p","n","g">>, <<".","j","p","g">>, <<".","j","p","e","g">>,
                   <<".","w","e","b","p">>} : EndsWith(Lower(name), suffix)

\* files.sort(key=name): a stable sort by name
SortedByName(files) ==
    LET Before(j, i) == \/ StrLess(files[j].name, files[i].name)
                        \/ files[j].name = files[i].name /\ j < i
    IN  [k \in 1..Len(files) |->
            files[CHOOSE i \in 1..Len(files) :
                      Cardinality({j \in 1..Len(files) : Before(j, i)}) = k - 1]]

DropboxFile(folder_path, name) ==
    [tag |-> "file", name |-> name, path_lower |-> <<folder_path>> \o Lower(name)]

DropboxFolder(folder_path, name) ==
    [tag |-> "folder", name |-> name, path_lower |-> <<folder_path>> \o Lower(name)]

\* what list_folder returns for each image folder
Dropbox ==
    [a |-> <<DropboxFolder("a", <<"o","l","d",".","p","n","g">>),
             DropboxFile("a", <<"b",".","P","N","G">>),
             DropboxFile("a", <<"n","o","t","e","s",".","t","x","t">>),
             DropboxFile("a", <<"c",".","w","e","b","p">>),
             DropboxFile("a", <<"a",".","j","p","g">>)>>,
     b |-> <<DropboxFile("b", <<"x",".","j","p","e","g">>)>>,
     c |-> <<DropboxFile("c", <<"r","e","a","d","m","e",".","t","x","t">>)>>,
     d |-> <<>>]

\* (current_index + 1) % len(image_files)
next_rotation_index_stay(current_index, n) == IF current_index < 0 THEN 0 ELSE current_index

next_rotation_index(current_index, n) == (current_index + 1) % n

\* _resolve_dropbox_image(folder_path) on the stored rotation state, given
\* whether a token is there and what list_folder and the shared link call do
_resolve_dropbox_image(folder_path, state, token, listing, link) ==
    LET out(status, raised) ==
            [image_url |-> <<>>, status |-> status, raised |-> raised, state |-> state]
        listed == Dropbox[folder_path]
        IsImage(entry) == entry.tag = "file" /\ _is_image_file(entry.name)
        image_files == SortedByName(SelectSeq(listed, IsImage))
        current_index == IF folder_path \in DOMAIN state THEN state[folder_path] ELSE -1
        next_index == next_rotation_index(current_index, Len(image_files))
        chosen == image_files[next_index + 1]
    IN  IF ~token THEN out("missing_dropbox_token", FALSE)
        ELSE IF folder_path = "" THEN out("missing_image_path", FALSE)
        ELSE IF listing = "raise" THEN out("", TRUE)
        ELSE IF listed = <<>> THEN out("no_files_found", FALSE)
        ELSE IF image_files = <<>> THEN out("no_image_files", FALSE)
        ELSE IF link = "raise" THEN out("", TRUE)
        ELSE IF link = "none" THEN out("link_create_failed", FALSE)
        ELSE [image_url |-> <<"dl">> \o chosen.path_lower, status |-> "ok",
              raised |-> FALSE, image_name |-> chosen.name,
              rotation_index |-> next_index + 1, rotation_total |-> Len(image_files),
              state |-> [f \in DOMAIN state \cup {folder_path} |->
                            IF f = folder_path THEN next_index ELSE state[f]]]

CallResolveDropboxImage(folders, tokens, listings, links) ==
    /\ \E folder_path \in folders, token \in tokens, listing \in listings, link \in links :
        \E r \in {_resolve_dropbox_image(folder_path, rotation_state, token, listing, link)} :
            /\ rotation_state' = r.state
            /\ last' = [op |-> "_resolve_dropbox_image", folder_path |-> folder_path,
                        token |-> token, listing |-> listing, link |-> link,
                        before |-> rotation_state, result |-> r]
    /\ UNCHANGED <<SETTINGS, clock, pc, runs, brands, bi, products, entries, ei, now_local,
                   scheduled_time, last_products, logs, article_history, post_log,
                   requests, repeat_skips>>

InitRotation == InitWith({Settings("k", "p", 100, FALSE, FALSE)}, {0})

\* the folder paths of the catalog rows: none, and the four folders of Dropbox
FolderPaths == {"", "a", "b", "c", "d"}

\* the outcomes of the shared-link request: a link, no link, a raise
LinkOutcomes == {"link", "none", "raise"}

NextRotation == CallResolveDropboxImage(FolderPaths, BOOLEAN, SucceedsOrRaises, LinkOutcomes)

SpecRotation == InitRotation /\ [][NextRotation]_vars

\* the image files of each folder, in name order
ImagesOf ==
    [a |-> <<<<"a",".","j","p","g">>, <<"b",".","P","N","G">>, <<"c",".","w","e","b","p">>>>,
     b |-> << <<"x",".","j","p","e","g">> >>,
     c |-> <<>>,
     d |-> <<>>]

\* the call of this step obtained a link
LinkObtained ==
    /\ last'.op = "_resolve_dropbox_image"
    /\ last'.token
    /\ last'.folder_path # ""
    /\ last'.listing = "ok"
    /\ ImagesOf[last'.folder_path] # <<>>
    /\ last'.link = "link"

\* C30: the stored rotation index of a folder with n image files is in
\* 0..n-1; a call that obtains a link stores (previous index + 1) mod n (0
\* when no index is stored), leaves the other folders' indexes alone and
\* returns the image at that index in name order; every other call (no
\* token, no folder, no files, no image files, no link, an error) leaves the
\* stored rotation state unchanged.
C30_RotationState ==
    /\ [](\A f \in DOMAIN rotation_state :
              rotation_state[f] \in 0..(Len(ImagesOf[f]) - 1))
    /\ [][/\ LinkObtained
              => LET f == last'.folder_path
                     n == Len(ImagesOf[f])
                     previous == IF f \in DOMAIN rotation_state THEN rotation_state[f] ELSE -1
                 IN  /\ last'.result.status = "ok"
                     /\ DOMAIN rotation_state' = DOMAIN rotation_state \cup {f}
                     /\ rotation_state'[f] = (previous + 1) % n
                     /\ \A g \in DOMAIN rotation_state : g # f =>
                            rotation_state'[g] = rotation_state[g]
                     /\ last'.result.image_name = ImagesOf[f][rotation_state'[f] + 1]
                     /\ last'.result.rotation_index = rotation_state'[f] + 1
                     /\ last'.result.rotation_total = n
          /\ (last'.op = "_resolve_dropbox_image" /\ ~LinkObtained)
              => /\ rotation_state' = rotation_state
                 /\ last'.result.status # "ok"
                 /\ last'.result.image_url = <<>>]_vars

C30_Witness ==
    /\ last.op = "_resolve_dropbox_image"
    /\ last.folder_path = "a"
    /\ last.result.status = "ok"
    /\ "a" \in DOMAIN last.before
    /\ last.before["a"] = 2
    /\ rotation_state["a"] = 0
    /\ "b" \in DOMAIN rotation_state
    /\ last.result.image_name = <<"a",".","j","p","g">>

====
